---- MODULE Spec2Model ----
(***************************************************************************)
(* A model of gac's commit-message engines and of the session around them. *)
(*                                                                         *)
(* Strings are TLA+ strings, read character by character with SubSeq, so   *)
(* that paths, diff text and candidates are compared exactly as the        *)
(* TypeScript compares them.  Every regular expression of the source is    *)
(* written out as the matcher it denotes.                                  *)
(*                                                                         *)
(* Two snapshots of engines/heuristic.ts are in the repository.  The       *)
(* definitions with the source's plain names model the entity-based        *)
(* snapshot (src/unnamed/part_001, second half); the definitions with the  *)
(* suffix H model src/src/engines/heuristic.ts (second half), the          *)
(* focus-weighted snapshot with the seeded pool index.                     *)
(***************************************************************************)
EXTENDS Integers, Sequences, FiniteSets, TLC

\* ------------------------------------------------------------------ strings

\* str.charAt(i - 1): "" outside the string
charAt(s, i) == IF 1 <= i /\ i <= Len(s) THEN SubSeq(s, i, i) ELSE ""

slice(s, i) == SubSeq(s, i + 1, Len(s))

startsWith(s, p) == Len(p) <= Len(s) /\ SubSeq(s, 1, Len(p)) = p

startsWithAt(s, i, p) ==
    i >= 1 /\ i + Len(p) - 1 <= Len(s) /\ SubSeq(s, i, i + Len(p) - 1) = p

endsWith(s, p) == Len(p) <= Len(s) /\ SubSeq(s, Len(s) - Len(p) + 1, Len(s)) = p

includes(s, p) == \E i \in 1..(Len(s) - Len(p) + 1) : SubSeq(s, i, i + Len(p) - 1) = p

UpperLetters == "ABCDEFGHIJKLMNOPQRSTUVWXYZ"

LowerLetters == "abcdefghijklmnopqrstuvwxyz"

Digits == "0123456789"

\* the characters of a string, as a set
chars(s) == {SubSeq(s, i, i) : i \in 1..Len(s)}

UpperSet == chars(UpperLetters)

LowerSet == chars(LowerLetters)

WordSet == UpperSet \cup LowerSet \cup chars(Digits) \cup {"_"}

isUpper(c) == c \in UpperSet

isLower(c) == c \in LowerSet

isDigit(c) == c \in chars(Digits)

\* \w of a regular expression
isWordChar(c) == c \in WordSet

\* \s of a regular expression
isSpace(c) == c \in {" ", "\t", "\n", "\r"}

letterIndex(letters, c) == CHOOSE i \in 1..Len(letters) : charAt(letters, i) = c

LowerOf == [c \in UpperSet |-> charAt(LowerLetters, letterIndex(UpperLetters, c))]

UpperOf == [c \in LowerSet |-> charAt(UpperLetters, letterIndex(LowerLetters, c))]

lowerChar(c) == IF isUpper(c) THEN LowerOf[c] ELSE c

upperChar(c) == IF isLower(c) THEN UpperOf[c] ELSE c

RECURSIVE toLowerCase(_)
toLowerCase(s) ==
    IF Len(s) <= 1 THEN lowerChar(s)
    ELSE toLowerCase(SubSeq(s, 1, Len(s) \div 2))
         \o toLowerCase(SubSeq(s, Len(s) \div 2 + 1, Len(s)))

\* str.charAt(0).toUpperCase() + str.slice(1)
capitalizeFirst(str) ==
    IF str = "" THEN str ELSE upperChar(charAt(str, 1)) \o slice(str, 1)

\* the first index >= i at which p occurs in s, 0 when there is none
least(hits) == IF hits = {} THEN 0 ELSE CHOOSE k \in hits : \A j \in hits : k <= j

indexFrom(s, p, i) == least({k \in i..(Len(s) - Len(p) + 1) : startsWithAt(s, k, p)})

\* s.split(sep) for a non-empty separator
RECURSIVE splitAt(_, _, _)
splitAt(s, sep, k) ==
    IF k = 0 THEN <<s>>
    ELSE <<SubSeq(s, 1, k - 1)>>
         \o splitAt(SubSeq(s, k + Len(sep), Len(s)), sep,
                    indexFrom(SubSeq(s, k + Len(sep), Len(s)), sep, 1))

split(s, sep) == splitAt(s, sep, indexFrom(s, sep, 1))

RECURSIVE join(_, _)
join(parts, sep) ==
    IF Len(parts) = 0 THEN ""
    ELSE IF Len(parts) = 1 THEN parts[1]
    ELSE parts[1] \o sep \o join(Tail(parts), sep)

\* s.trim()
RECURSIVE trimStart(_)
trimStart(s) == IF s # "" /\ isSpace(charAt(s, 1)) THEN trimStart(slice(s, 1)) ELSE s

RECURSIVE trimEnd(_)
trimEnd(s) ==
    IF s # "" /\ isSpace(charAt(s, Len(s))) THEN trimEnd(SubSeq(s, 1, Len(s) - 1)) ELSE s

trim(s) == trimEnd(trimStart(s))

\* arr.pop() of a split: the last part
last(parts) == parts[Len(parts)]

\* arr.slice(0, -1)
dropLast(parts) == SubSeq(parts, 1, Len(parts) - 1)

\* arr.slice(0, n)
take(arr, n) == SubSeq(arr, 1, IF n < Len(arr) THEN n ELSE Len(arr))

range(arr) == {arr[i] : i \in 1..Len(arr)}

\* [...new Set(arr)]: the first occurrence of every value, in order
RECURSIVE uniqueSeq(_)
uniqueSeq(arr) ==
    IF Len(arr) = 0 THEN <<>>
    ELSE LET init == uniqueSeq(dropLast(arr))
         IN  IF last(arr) \in range(init) THEN init ELSE Append(init, last(arr))

max(a, b) == IF a >= b THEN a ELSE b

min(a, b) == IF a <= b THEN a ELSE b

RECURSIVE sumSeq(_)
sumSeq(arr) == IF Len(arr) = 0 THEN 0 ELSE arr[1] + sumSeq(Tail(arr))

\* ------------------------------------------------- regular-expression parts

\* the index after a maximal run of \s from i (i itself when there is none)
RECURSIVE skipSpace(_, _)
skipSpace(s, i) ==
    IF i <= Len(s) /\ isSpace(charAt(s, i)) THEN skipSpace(s, i + 1) ELSE i

\* the index after a maximal run of [a-zA-Z0-9_] from i
RECURSIVE skipWord(_, _)
skipWord(s, i) ==
    IF i <= Len(s) /\ isWordChar(charAt(s, i)) THEN skipWord(s, i + 1) ELSE i

\* \b holds between index i - 1 and index i of s
wordBoundaryAt(s, i) ==
    Cardinality({k \in {i - 1, i} : k >= 1 /\ k <= Len(s) /\ isWordChar(charAt(s, k))}) = 1

\* /\bw\b/ for a word w of word characters
matchesWord(s, w) ==
    \E i \in 1..(Len(s) - Len(w) + 1) :
        startsWithAt(s, i, w) /\ \A k \in {i, i + Len(w)} : wordBoundaryAt(s, k)

\* /\b(w1|w2|...)\b/
matchesAnyWord(s, ws) == \E w \in ws : matchesWord(s, w)

\* /\bw/ and /w\b/
matchesWordStart(s, w) ==
    \E i \in 1..(Len(s) - Len(w) + 1) : startsWithAt(s, i, w) /\ wordBoundaryAt(s, i)

matchesWordEnd(s, w) ==
    \E i \in 1..(Len(s) - Len(w) + 1) :
        startsWithAt(s, i, w) /\ wordBoundaryAt(s, i + Len(w))

includesAny(s, ps) == \E p \in ps : includes(s, p)

endsWithAny(s, ps) == \E p \in ps : endsWith(s, p)

\* set.add(v) on a Set kept in insertion order
addUnique(arr, v) == IF v \in range(arr) THEN arr ELSE Append(arr, v)

\* path.replace(/\\/g, "/")
RECURSIVE slashes(_)
slashes(p) ==
    IF Len(p) <= 1 THEN (IF p = "\\" THEN "/" ELSE p)
    ELSE slashes(SubSeq(p, 1, Len(p) \div 2)) \o slashes(SubSeq(p, Len(p) \div 2 + 1, Len(p)))

\* str.replace(pat, "") for a string pattern: the first occurrence only
cutAt(s, pat, k) ==
    IF k = 0 THEN s ELSE SubSeq(s, 1, k - 1) \o SubSeq(s, k + Len(pat), Len(s))

replaceFirst(s, pat) == cutAt(s, pat, indexFrom(s, pat, 1))

\* name.replace(/\.[^.]+$/, ""): the last extension dropped
greatest(hits) == IF hits = {} THEN 0 ELSE CHOOSE k \in hits : \A j \in hits : j <= k

beforeDot(name, k) == IF k = 0 THEN name ELSE SubSeq(name, 1, k - 1)

stripExtension(name) ==
    beforeDot(name, greatest({i \in 1..(Len(name) - 1) : charAt(name, i) = "."}))

\* the ends of the line starts of a text: 1 and every index after a "\n" (the ^ of /m)
lineStarts(text) == {1} \cup {i + 1 : i \in {j \in 1..Len(text) : charAt(text, j) = "\n"}}

\* text.split(/^diff --git/m)
firstDiffGit(text) == least({i \in lineStarts(text) : startsWithAt(text, i, "diff --git")})

RECURSIVE splitDiffGitAt(_, _)
splitDiffGitAt(text, k) ==
    IF k = 0 THEN <<text>>
    ELSE <<SubSeq(text, 1, k - 1)>>
         \o splitDiffGitAt(SubSeq(text, k + 10, Len(text)),
                           firstDiffGit(SubSeq(text, k + 10, Len(text))))

splitDiffGit(text) == splitDiffGitAt(text, firstDiffGit(text))

\* -------------------------------------------- diff lines (part_001 patterns)

\* /^\+\s*/ : the index after the marker and the blanks, 0 when the line is not added
afterPlus(line) == IF startsWith(line, "+") THEN skipSpace(line, 2) ELSE 0

\* (?:kw\s+)? at i: the index after it when it is there, else i
optionalKeyword(line, i, kw) ==
    LET after(k) == IF startsWithAt(line, i, kw) /\ k > i + Len(kw) THEN k ELSE i
    IN  after(skipSpace(line, i + Len(kw)))

\* kw\s+ at i: the index after it, 0 when it is not there
keywordThenSpace(line, i, kw) ==
    LET after(k) == IF i > 0 /\ startsWithAt(line, i, kw) /\ k > i + Len(kw) THEN k ELSE 0
    IN  after(skipSpace(line, i + Len(kw)))

\* ([a-zA-Z0-9_]+) at i: the identifier, "" when there is none
identifierAt(line, i) == IF i = 0 THEN "" ELSE SubSeq(line, i, skipWord(line, i) - 1)

\* patterns.function
matchFunction(line) ==
    LET i0 == afterPlus(line)
        i1 == optionalKeyword(line, i0, "export")
        i2 == optionalKeyword(line, i1, "async")
    IN  IF i0 = 0 THEN "" ELSE identifierAt(line, keywordThenSpace(line, i2, "function"))

\* patterns.arrowFunction
matchArrowFunction(line) ==
    LET arrow(name, e, a) ==
            IF name = "" \/ charAt(line, e) # "=" THEN ""
            ELSE IF charAt(line, IF startsWithAt(line, a, "async")
                                 THEN skipSpace(line, a + 5) ELSE a) = "("
                    \/ charAt(line, a) = "("
            THEN name
            ELSE ""
        assigned(name, e) == arrow(name, e, skipSpace(line, e + 1))
        named(j, name) == assigned(name, skipSpace(line, j + Len(name)))
        declared(j) == named(j, identifierAt(line, j))
        either(k1, k2) == declared(IF k1 > 0 THEN k1 ELSE k2)
        exported(i1) ==
            either(keywordThenSpace(line, i1, "const"), keywordThenSpace(line, i1, "let"))
        added(i0) == IF i0 = 0 THEN "" ELSE exported(optionalKeyword(line, i0, "export"))
    IN  added(afterPlus(line))

\* patterns.class
matchClass(line) ==
    LET i0 == afterPlus(line)
        i1 == optionalKeyword(line, i0, "export")
    IN  IF i0 = 0 THEN "" ELSE identifierAt(line, keywordThenSpace(line, i1, "class"))

\* patterns.pyClass
matchPyClass(line) ==
    LET i0 == afterPlus(line)
    IN  IF i0 = 0 THEN "" ELSE identifierAt(line, keywordThenSpace(line, i0, "class"))

\* patterns.pyFunction
matchPyFunction(line) ==
    LET i0 == afterPlus(line)
    IN  IF i0 = 0 THEN "" ELSE identifierAt(line, keywordThenSpace(line, i0, "def"))

\* [A-Z][a-zA-Z0-9_]+ : an identifier of two characters or more that starts upper-case
isComponentName(name) == Len(name) >= 2 /\ isUpper(charAt(name, 1))

\* patterns.component: const Name = ..., or function Name
matchComponent(line) ==
    LET component(c, ce, f) ==
            IF isComponentName(c) /\ charAt(line, ce) = "=" THEN c
            ELSE IF isComponentName(f) THEN f
            ELSE ""
        named(k, c, f) == component(c, skipSpace(line, k + Len(c)), f)
        declared(k, f) == named(k, identifierAt(line, k), f)
        exported(i1) ==
            declared(keywordThenSpace(line, i1, "const"),
                     identifierAt(line, keywordThenSpace(line, i1, "function")))
        added(i0) == IF i0 = 0 THEN "" ELSE exported(optionalKeyword(line, i0, "export"))
    IN  added(afterPlus(line))

\* patterns.variable
matchVariable(line) ==
    LET variable(name, e) ==
            IF name = "" THEN ""
            ELSE IF charAt(line, e) = "=" /\ e + 1 <= Len(line) /\ charAt(line, e + 1) # ">"
            THEN name
            ELSE ""
        named(j, name) == variable(name, skipSpace(line, j + Len(name)))
        picked(j) == named(j, identifierAt(line, j))
        declared(ks) == picked(least(ks))
        exported(i1) ==
            declared({keywordThenSpace(line, i1, kw) : kw \in {"const", "let", "var"}} \ {0})
        added(i0) == IF i0 = 0 THEN "" ELSE exported(optionalKeyword(line, i0, "export"))
    IN  added(afterPlus(line))

\* patterns.errorHandling
matchErrorHandling(line) ==
    /\ startsWith(line, "+")
    /\ \E p \in 2..Len(line) :
        /\ wordBoundaryAt(line, p)
        /\ \/ (startsWithAt(line, p, "try") /\ charAt(line, skipSpace(line, p + 3)) = "{")
           \/ (startsWithAt(line, p, "catch") /\ charAt(line, skipSpace(line, p + 5)) = "(")
           \/ LET n == keywordThenSpace(line, p, "throw")
                  m == keywordThenSpace(line, n, "new")
              IN  m > 0 /\ startsWithAt(line, m, "Error")

\* ------------------------------------------ part_001: entities of the diff

NoEntities ==
    [functions |-> <<>>, classes |-> <<>>, components |-> <<>>, variables |-> <<>>,
     dependencies |-> <<>>, hasErrorHandling |-> FALSE]

addIf(arr, v) == IF v = "" THEN arr ELSE addUnique(arr, v)

\* the body of the loop over the diff's lines
scanLine(line, e) ==
    LET others(arrow) ==
            [e EXCEPT
                !.functions =
                    addIf(addIf(addIf(@, matchFunction(line)),
                                IF isUpper(charAt(arrow, 1)) THEN "" ELSE arrow),
                          matchPyFunction(line)),
                !.classes = addIf(addIf(@, matchClass(line)), matchPyClass(line)),
                !.variables = addIf(@, matchVariable(line)),
                !.hasErrorHandling = @ \/ matchErrorHandling(line)]
        scanned(component) ==
            IF component # ""
            THEN [e EXCEPT !.components = addUnique(@, component)]
            ELSE others(matchArrowFunction(line))
    IN  scanned(matchComponent(line))

RECURSIVE scanLines(_, _)
scanLines(lines, e) ==
    IF Len(lines) = 0 THEN e ELSE scanLines(Tail(lines), scanLine(lines[1], e))

\* getDiffForFile: the first chunk of the diff that mentions b/<filePath>
getDiffForFile(fullDiff, filePath) ==
    LET diffs == splitDiffGit(fullDiff)
        hits == {i \in 1..Len(diffs) : includes(diffs[i], "b/" \o filePath)}
    IN  IF hits = {} THEN "" ELSE diffs[CHOOSE i \in hits : \A j \in hits : i <= j]

PackageKeys ==
    {"dependencies", "Dependencies", "devDependencies", "devdependencies",
     "peerDependencies", "peerdependencies", "optionalDependencies",
     "optionaldependencies", "scripts", "engines", "files", "exports", "imports"}

\* /^"((dev|peer|optional)?[dD]ependencies|scripts|engines|files|exports|imports)"/
isPackageKeyLine(text) == \E k \in PackageKeys : startsWith(text, "\"" \o k \o "\"")

\* line.match(/^\+\s*"([^"]+)"\s*:/): the quoted key of an added line, "" when none
matchDependency(line) ==
    LET i0 == afterPlus(line)
        close == indexFrom(line, "\"", i0 + 1)
        name == SubSeq(line, i0 + 1, close - 1)
    IN  IF i0 = 0 \/ charAt(line, i0) # "\"" \/ close = 0 \/ name = "" THEN ""
        ELSE IF charAt(line, skipSpace(line, close + 1)) = ":" THEN name
        ELSE ""

\* one line of the package.json scan; st is <<inDepsBlock, dependencies>>
scanPackageLine(line, st) ==
    LET contentLine == IF startsWith(line, " ") THEN slice(line, 1) ELSE line
        inDepsBlock ==
            IF isPackageKeyLine(trim(contentLine))
            THEN includes(toLowerCase(contentLine), "dependencies")
            ELSE st[1]
    IN  <<inDepsBlock,
          IF inDepsBlock /\ startsWith(line, "+") THEN addIf(st[2], matchDependency(line))
          ELSE st[2]>>

RECURSIVE scanPackageLines(_, _)
scanPackageLines(lines, st) ==
    IF Len(lines) = 0 THEN st
    ELSE scanPackageLines(Tail(lines), scanPackageLine(lines[1], st))

extractKeyEntities(diff, files) ==
    LET withDependencies(e) ==
            IF \E i \in 1..Len(files) : endsWith(files[i].path, "package.json")
            THEN [e EXCEPT !.dependencies =
                     scanPackageLines(split(getDiffForFile(diff, "package.json"), "\n"),
                                      <<FALSE, <<>>>>)[2]]
            ELSE e
    IN  withDependencies(scanLines(split(diff, "\n"), NoEntities))

\* ------------------------------------------------ part_001: classification

\* /\.(md|txt|rst|adoc)$/i
\* only markdown counted as documentation
isDocFileMarkdownOnly(path) == endsWith(toLowerCase(path), ".md")

isDocFile(path) == endsWithAny(toLowerCase(path), {".md", ".txt", ".rst", ".adoc"})

\* Math.max(1, (f.additions || 0) + (f.deletions || 0))
churn(f) == max(1, f.additions + f.deletions)

\* a Map in insertion order is a sequence of <<key, value>> pairs
mapHas(m, k) == \E i \in 1..Len(m) : m[i][1] = k

mapGet(m, k) == IF mapHas(m, k) THEN m[CHOOSE i \in 1..Len(m) : m[i][1] = k][2] ELSE 0

mapAdd(m, k, w) ==
    IF mapHas(m, k)
    THEN [i \in 1..Len(m) |-> IF m[i][1] = k THEN <<k, m[i][2] + w>> ELSE m[i]]
    ELSE Append(m, <<k, w>>)

mapKeys(m) == [i \in 1..Len(m) |-> m[i][1]]

\* entries.sort((a, b) => b[1] - a[1]): descending by value, stable
RECURSIVE sortByWeight(_)

\* the first entry of the greatest value
heaviest(m) ==
    CHOOSE i \in 1..Len(m) :
        /\ \A j \in 1..Len(m) : m[j][2] <= m[i][2]
        /\ \A j \in 1..(i - 1) : m[j][2] < m[i][2]

sortedFrom(m, k) == <<m[k]>> \o sortByWeight(SubSeq(m, 1, k - 1) \o SubSeq(m, k + 1, Len(m)))

sortByWeight(m) == IF Len(m) = 0 THEN <<>> ELSE sortedFrom(m, heaviest(m))

categoryOfPath(path) ==
    IF includesAny(path, {"package.json", "pnpm-lock.yaml", "yarn.lock", "package-lock.json"})
    THEN "dependencies"
    ELSE IF includes(path, "/engines/") THEN "engine"
    ELSE IF includes(path, "/cli") THEN "cli"
    ELSE IF includes(path, "/git") THEN "git"
    ELSE IF includes(path, "/generator") THEN "generator"
    ELSE IF endsWithAny(path, {".tsx", ".jsx"}) THEN "ui"
    ELSE IF includesAny(path, {".test.", ".spec.", "__tests__"}) THEN "tests"
    ELSE IF isDocFile(path) THEN "docs"
    ELSE IF includesAny(path, {"api", "route", "endpoint"}) THEN "api"
    ELSE IF includesAny(path, {"config", "settings"}) THEN "config"
    ELSE "code"

categoryOf(file) == categoryOfPath(slashes(file.path))

RECURSIVE categorizeInto(_, _)
categorizeInto(files, m) ==
    IF Len(files) = 0 THEN m
    ELSE categorizeInto(Tail(files), mapAdd(m, categoryOf(files[1]), churn(files[1])))

categorizeFiles(files) == categorizeInto(files, <<>>)

\* /\/engine\//: the directory name in the singular
isEngineFileSingular(f) == includes(f.path, "/engine/")

isEngineFile(f) == includes(f.path, "/engines/")

detectPrimaryFocus(files, diff) ==
    LET categories == categorizeFiles(files)
        coreCategories ==
            SelectSeq(<<"cli", "config", "git", "engine", "generator">>,
                      LAMBDA c : mapHas(categories, c))
        engineFiles == SelectSeq(files, isEngineFile)
        added == Len(SelectSeq(engineFiles, LAMBDA f : f.status = "A"))
        modified == Len(engineFiles) - added
        firstAdded == engineFiles[CHOOSE i \in 1..Len(engineFiles) :
                          /\ engineFiles[i].status = "A"
                          /\ \A j \in 1..(i - 1) : engineFiles[j].status # "A"]
    IN  IF Len(coreCategories) >= 3
        THEN [focus |-> "core-refactor",
              detail |-> "core components (" \o join(coreCategories, ", ") \o ")"]
        ELSE IF mapHas(categories, "dependencies") /\ Len(categories) = 1
        THEN [focus |-> "deps", detail |-> "dependencies"]
        ELSE IF Len(files) > 0 /\ 10 * Len(engineFiles) > 6 * Len(files) /\ added > 0 /\ modified > 0
        THEN [focus |-> "engine-refactor", detail |-> "engine architecture"]
        ELSE IF Len(files) > 0 /\ 10 * Len(engineFiles) > 6 * Len(files) /\ added > 1
        THEN [focus |-> "new-engine", detail |-> "multiple engines"]
        ELSE IF Len(files) > 0 /\ 10 * Len(engineFiles) > 6 * Len(files) /\ added = 1
        THEN [focus |-> "new-engine",
              detail |-> replaceFirst(last(split(firstAdded.path, "/")), ".ts") \o " engine"]
        ELSE IF Len(files) > 0 /\ 10 * Len(engineFiles) > 6 * Len(files) /\ modified > 1
        THEN [focus |-> "multi-engine", detail |-> "multiple engines"]
        ELSE IF Len(files) = 1
        THEN [focus |-> "single-file", detail |-> last(split(files[1].path, "/"))]
        ELSE [focus |-> "generic", detail |-> ""]

FixWords == {"fix", "bug", "issue", "patch", "resolve", "resolves", "resolved", "correct"}

RefactorWords == {"refactor", "restructure", "cleanup", "simplify"}

isTestPath(path) == includesAny(path, {".test.", "_test.", "spec.", "__tests__"})

isStylePath(path) == endsWithAny(path, {".css", ".scss", ".less", ".styl"})

detectChangeType(files, diff, entities, primaryFocus) ==
    LET hasNewEntities ==
            Len(entities.functions) > 0 \/ Len(entities.classes) > 0
                \/ Len(entities.components) > 0
        addedCode == \E i \in 1..Len(files) : files[i].status = "A" /\ ~isDocFile(files[i].path)
    IN  IF \A i \in 1..Len(files) : isDocFile(files[i].path) THEN "docs"
        ELSE IF Len(entities.dependencies) > 0 THEN "chore"
        ELSE IF includes(primaryFocus.focus, "refactor") THEN "refactor"
        ELSE IF entities.hasErrorHandling THEN "fix"
        ELSE IF addedCode \/ hasNewEntities THEN "feat"
        ELSE IF matchesAnyWord(toLowerCase(diff), FixWords) THEN "fix"
        ELSE IF \E i \in 1..Len(files) : isTestPath(files[i].path) THEN "test"
        ELSE IF matchesAnyWord(toLowerCase(diff), RefactorWords) THEN "refactor"
        ELSE IF \E i \in 1..Len(files) : isStylePath(files[i].path) THEN "style"
        ELSE IF \E i \in 1..Len(files) : includesAny(files[i].path, {"package-lock", "yarn.lock"})
        THEN "chore"
        ELSE "chore"

\* the domains of detectScope, in the order of the object's keys
ScopeDomains == <<"engine", "cli", "api", "auth", "config", "ci", "ui">>

domainMatches(domain, path) ==
    IF domain = "ci" THEN includesAny(path, {".github", ".gitlab"})
    ELSE matchesAnyWord(path,
            CASE domain = "engine" -> {"engines", "heuristic", "ollama", "openai", "gemini"}
              [] domain = "cli" -> {"cli", "command", "bin"}
              [] domain = "api" -> {"api", "endpoint", "route"}
              [] domain = "auth" -> {"auth", "login", "session"}
              [] domain = "config" -> {"config", "setting", "env"}
              [] domain = "ui" -> {"ui", "components", "views", "pages"})

domainCount(domain, files) ==
    sumSeq([i \in 1..Len(files) |->
               IF domainMatches(domain, toLowerCase(slashes(files[i].path)))
               THEN churn(files[i]) ELSE 0])

\* counts: the accumulated weight of every domain, in the order of the keys
domainCounts(files) ==
    [i \in 1..Len(ScopeDomains) |-> <<ScopeDomains[i], domainCount(ScopeDomains[i], files)>>]

\* the last directory of the only file that is neither src nor lib
pathScope(files) ==
    LET firstDirectory(meaningful) == IF Len(meaningful) > 0 THEN last(meaningful) ELSE ""
    IN  IF Len(files) = 1
        THEN firstDirectory(
                SelectSeq(dropLast(split(toLowerCase(slashes(files[1].path)), "/")),
                          LAMBDA p : p \notin {"src", "lib"}))
        ELSE ""

detectScope(files) ==
    LET scopeOf(ranked) ==
            IF Len(files) = 0 THEN ""
            ELSE IF Len(ranked) > 0 THEN ranked[1][1]
            ELSE pathScope(files)
    IN  scopeOf(sortByWeight(SelectSeq(domainCounts(files), LAMBDA c : c[2] > 0)))

\* -------------------------------------------------- part_001: descriptions

VerbPools ==
    << <<"docs", <<"clarify", "update", "improve", "refine">> >>,
       <<"refactor", <<"refactor", "simplify", "restructure">> >>,
       <<"chore", <<"update", "maintain", "tune">> >>,
       <<"feat", <<"add", "implement", "introduce">> >>,
       <<"fix", <<"fix", "resolve", "correct">> >>,
       <<"test", <<"test", "add tests for", "verify">> >>,
       <<"style", <<"style", "format", "lint">> >>,
       <<"default", <<"update", "improve", "modify">> >> >>

poolOf(pools, key) == pools[CHOOSE i \in 1..Len(pools) : pools[i][1] = key][2]

\* pools of two verbs more
pickVerbLonger(type, domain, variant) ==
    LET key == IF domain = "docs" THEN "docs"
               ELSE IF mapHas(VerbPools, type) THEN type
               ELSE "default"
        pool == poolOf(VerbPools, key) \o <<"touch", "rework">>
    IN  pool[(variant % Len(pool)) + 1]

pickVerb(type, domain, variant) ==
    LET key == IF domain = "docs" THEN "docs"
               ELSE IF mapHas(VerbPools, type) THEN type
               ELSE "default"
        pool == poolOf(VerbPools, key)
    IN  pool[(variant % Len(pool)) + 1]

getDefaultVerb(type, variant) == pickVerb(type, "code", variant)

\* the emojis, written as their gitmoji codes
getEmoji(type) ==
    CASE type = "feat" -> ":sparkles:"
      [] type = "fix" -> ":bug:"
      [] type = "docs" -> ":memo:"
      [] type = "style" -> ":lipstick:"
      [] type = "refactor" -> ":recycle:"
      [] type = "test" -> ":white_check_mark:"
      [] type = "chore" -> ":wrench:"
      [] type = "perf" -> ":zap:"
      [] type = "build" -> ":package:"
      [] type = "ci" -> ":construction_worker:"
      [] OTHER -> ":hammer:"

prettifyCategory(category) ==
    CASE category = "engine" -> "engines"
      [] category = "cli" -> "CLI"
      [] category = "api" -> "API"
      [] category = "ui" -> "UI"
      [] category = "config" -> "configuration"
      [] category = "ci" -> "CI"
      [] category = "dependencies" -> "dependencies"
      [] category = "git" -> "Git logic"
      [] category = "generator" -> "generator"
      [] OTHER -> category

buildCategoryNoun(files) ==
    LET partsOf(top) ==
            SelectSeq([i \in 1..Len(top) |-> prettifyCategory(top[i])], LAMBDA k : k # "")
        nounOf(cats, parts) ==
            IF Len(cats) = 0 THEN ""
            ELSE IF Len(parts) = 1 THEN parts[1]
            ELSE IF Len(parts) = 2 THEN parts[1] \o " and " \o parts[2]
            ELSE "multiple components"
        categorized(cats) == nounOf(cats, partsOf(take(mapKeys(sortByWeight(cats)), 2)))
    IN  categorized(categorizeFiles(files))

buildIntelligentSubject(type, scope, entities, files, variant) ==
    LET deps == entities.dependencies
        newCount == Len(entities.components) + Len(entities.classes) + Len(entities.functions)
        subject(verb, catNoun) ==
            IF Len(deps) = 1 THEN [verb |-> "update", noun |-> "dependency " \o deps[1]]
            ELSE IF Len(deps) > 0 /\ Len(deps) <= 3
            THEN [verb |-> "update", noun |-> "dependencies " \o join(deps, ", ")]
            ELSE IF Len(deps) > 0
            THEN [verb |-> "update", noun |-> ToString(Len(deps)) \o " dependencies"]
            ELSE IF type \in {"feat", "refactor"} /\ newCount > 0
            THEN [verb |-> IF type = "feat" THEN "add" ELSE "refactor",
                  noun |-> IF Len(entities.components) > 0
                           THEN entities.components[1] \o " component"
                           ELSE IF Len(entities.classes) > 0
                           THEN entities.classes[1] \o " class"
                           ELSE entities.functions[1] \o " function"]
            ELSE IF type = "fix" /\ Len(entities.functions) > 0
            THEN [verb |-> "fix", noun |-> "error in " \o entities.functions[1] \o " function"]
            ELSE IF catNoun # "" /\ scope # "" /\ includes(toLowerCase(catNoun), toLowerCase(scope))
            THEN [verb |-> verb, noun |-> catNoun]
            ELSE IF catNoun # ""
            THEN [verb |-> verb, noun |-> IF scope # "" THEN scope \o " " \o catNoun ELSE catNoun]
            ELSE [verb |-> verb, noun |-> IF scope # "" THEN scope ELSE "project"]
    IN  subject(getDefaultVerb(type, variant), buildCategoryNoun(files))

getVerbForFocus(focus, type) ==
    IF includes(focus, "refactor") THEN "refactor"
    ELSE IF includes(focus, "new-engine") THEN (IF type = "feat" THEN "add" ELSE "implement")
    ELSE IF focus = "multi-engine" THEN "update"
    ELSE IF focus = "deps" THEN "update"
    ELSE getDefaultVerb(type, 0)

\* a filter that lets every description through
dedupeByNounAll(descriptions, uniqueNouns) == descriptions

\* descriptions.filter: the first entry of every lower-cased noun, empty nouns dropped
RECURSIVE dedupeByNoun(_, _)
dedupeByNoun(descriptions, uniqueNouns) ==
    IF Len(descriptions) = 0 THEN <<>>
    ELSE LET d == descriptions[1]
         IN  IF d.noun = "" \/ toLowerCase(d.noun) \in uniqueNouns
             THEN dedupeByNoun(Tail(descriptions), uniqueNouns)
             ELSE <<d>> \o dedupeByNoun(Tail(descriptions),
                                        uniqueNouns \cup {toLowerCase(d.noun)})

buildDescriptions(files, type, primaryFocus, scope, entities, variant) ==
    LET differs(noun, primary) == toLowerCase(noun) # toLowerCase(primary.noun)
        second(primary) ==
            IF primaryFocus.focus # "generic" /\ primaryFocus.detail # ""
                  /\ differs(primaryFocus.detail, primary)
            THEN <<[verb |-> getVerbForFocus(primaryFocus.focus, type),
                    noun |-> primaryFocus.detail]>>
            ELSE <<>>
        third(primary, catNoun) ==
            IF catNoun # "" /\ differs(catNoun, primary)
            THEN <<[verb |-> getDefaultVerb(type, variant + 1), noun |-> catNoun]>>
            ELSE <<>>
        fourth(primary, fallbackNoun) ==
            IF Len(files) > 1 /\ differs(fallbackNoun, primary)
            THEN <<[verb |-> getDefaultVerb(type, variant + 2), noun |-> fallbackNoun]>>
            ELSE <<>>
        all(primary) ==
            <<primary>> \o second(primary) \o third(primary, buildCategoryNoun(files))
            \o fourth(primary, ToString(Len(files)) \o " files")
    IN  dedupeByNoun(all(buildIntelligentSubject(type, scope, entities, files, variant)), {})

\* ------------------------------------------- part_001: generateHeuristic

buildDiffForFiles(diff, files) ==
    LET wanted == {"b/" \o slashes(files[i].path) : i \in 1..Len(files)}
        third(d) == LET words == split(split(d, "\n")[1], " ")
                    IN  IF Len(words) >= 3 THEN words[3] ELSE ""
    IN  IF diff = "" \/ Len(files) = 0 THEN ""
        ELSE join(SelectSeq(splitDiffGit(diff), LAMBDA d : third(d) \in wanted), "diff --git")

RECURSIVE skipHashes(_, _)
skipHashes(s, i) == IF charAt(s, i) = "#" THEN skipHashes(s, i + 1) ELSE i

\* the end of the line that holds position i
RECURSIVE lineEnd(_, _)
lineEnd(s, i) == IF i > Len(s) \/ charAt(s, i) \in {"\n", "\r"} THEN i ELSE lineEnd(s, i + 1)

\* /^\+\s*#+\s*(.+)/ tried at line start p: the capture, "" when there is no match.
\* \s* runs across line ends; when the blanks reach the end of the text the
\* capture is what backtracking leaves: from the last blank that is not a line end.
headingAt(text, p) ==
    LET q == skipSpace(text, p + 1)
        r == skipHashes(text, q)
        t == skipSpace(text, r)
        ks == {k \in r..Len(text) : charAt(text, k) \notin {"\n", "\r"}}
        k == CHOOSE i \in ks : \A j \in ks : j <= i
    IN  IF charAt(text, p) # "+" \/ r = q THEN ""
        ELSE IF t <= Len(text) THEN SubSeq(text, t, lineEnd(text, t) - 1)
        ELSE IF ks = {} THEN ""
        ELSE SubSeq(text, k, lineEnd(text, k) - 1)

extractDocsTopic(diff) ==
    LET hits == {p \in lineStarts(diff) : headingAt(diff, p) # ""}
        first == CHOOSE p \in hits : \A o \in hits : p <= o
        lower == toLowerCase(diff)
    IN  IF diff = "" THEN ""
        ELSE IF hits # {} THEN toLowerCase(headingAt(diff, first))
        ELSE IF matchesWordStart(lower, "install") \/ matchesWordEnd(lower, "setup")
        THEN "installation instructions"
        ELSE IF matchesWordStart(lower, "usage") \/ matchesWordEnd(lower, "command")
        THEN "usage examples"
        ELSE ""

ArchitecturalFoci == {"engine-refactor", "new-engine", "multi-engine", "core-refactor"}

\* Math.ceil(total * 0.6) and Math.ceil(total * 0.4), exact below 2000
ceilTenths(total, tenths) == (total * tenths + 9) \div 10

docsSignificance(docsFiles, codeFiles, primaryFocus) ==
    LET docWeight == sumSeq([i \in 1..Len(docsFiles) |-> churn(docsFiles[i])])
        codeWeight == sumSeq([i \in 1..Len(codeFiles) |-> churn(codeFiles[i])])
        docsThreshold == IF primaryFocus.focus \in ArchitecturalFoci THEN 6 ELSE 4
    IN  Len(docsFiles) > 0
        /\ (Len(codeFiles) = 0
            \/ docWeight >= ceilTenths(codeWeight + docWeight, docsThreshold))

\* the description at variant % length moved to the front
rotateDescriptions(allDescriptions, variant) ==
    LET primaryIndex == (variant % Len(allDescriptions)) + 1
    IN  <<allDescriptions[primaryIndex]>>
        \o SubSeq(allDescriptions, 1, primaryIndex - 1)
        \o SubSeq(allDescriptions, primaryIndex + 1, Len(allDescriptions))

hasReadme(docsFiles) ==
    \E i \in 1..Len(docsFiles) : endsWith(toLowerCase(docsFiles[i].path), "readme.md")

\* generateHeuristic up to the change type: what it derives from the changes
\* alone, before config.regen and config.style are read
analyse(changes) ==
    LET parted(l) ==
            [entities |-> extractKeyEntities(changes.diff, l.files),
             docsFiles |-> SelectSeq(l.files, LAMBDA f : isDocFile(f.path)),
             codeFiles |-> SelectSeq(l.files, LAMBDA f : ~isDocFile(f.path))] @@ l
        based(l) ==
            [baseFiles |-> IF Len(l.codeFiles) > 0 THEN l.codeFiles ELSE l.files,
             baseDiff |-> IF Len(l.codeFiles) > 0
                          THEN buildDiffForFiles(changes.diff, l.codeFiles)
                          ELSE changes.diff,
             docTopic |-> extractDocsTopic(buildDiffForFiles(changes.diff, l.docsFiles))]
            @@ l
        focused(l) == [primaryFocus |-> detectPrimaryFocus(l.baseFiles, l.baseDiff)] @@ l
        typed(l) ==
            [type |-> detectChangeType(l.baseFiles, l.baseDiff, l.entities, l.primaryFocus),
             scope |-> detectScope(l.files),
             docsSignificant |-> docsSignificance(l.docsFiles, l.codeFiles, l.primaryFocus)]
            @@ l
    IN  typed(focused(based(parted([files |-> changes.files]))))

\* generateHeuristic from the descriptions on: the variant picks the description
describe(analysed, config) ==
    LET orFiles(built) ==
            IF Len(built) = 0 THEN <<[verb |-> "update", noun |-> "files"]>> ELSE built
        described(l) ==
            [descriptions |->
                rotateDescriptions(
                    orFiles(buildDescriptions(l.files, l.type, l.primaryFocus, l.scope,
                                              l.entities, l.variant)),
                    l.variant)] @@ l
        selected(l) ==
            [selectedDesc |-> l.descriptions[1],
             isMixed |-> Len(l.codeFiles) > 0 /\ l.docsSignificant] @@ l
    IN  selected(described([variant |-> config.regen, style |-> config.style] @@ analysed))

\* the locals of generateHeuristic before the candidates are built
heuristicLocals(changes, config) == describe(analyse(changes), config)

orElse(a, b) == IF a # "" THEN a ELSE b

parens(scope) == IF scope # "" THEN "(" \o scope \o ")" ELSE ""

\* the conventional candidate that never joins a docs half
convCandidateSingle(c) ==
    (IF c.docsSignificant THEN "docs" ELSE c.type)
    \o parens(IF c.docsSignificant THEN orElse(detectScope(c.docsFiles), "docs") ELSE c.scope)
    \o ": "
    \o (IF c.docsSignificant THEN orElse(c.docTopic, "documentation")
        ELSE c.selectedDesc.noun)

convCandidate(c) ==
    LET codeScope == orElse(detectScope(c.codeFiles), c.scope)
        docsScope == IF hasReadme(c.docsFiles) THEN "readme" ELSE ""
        left == c.type \o parens(codeScope) \o ": " \o c.selectedDesc.noun
        docsPhrase == orElse(c.docTopic, IF docsScope = "readme" THEN "README" ELSE "docs")
        right == "docs" \o parens(docsScope) \o ": update " \o docsPhrase
        finalType == IF c.docsSignificant THEN "docs" ELSE c.type
        finalScope == IF c.docsSignificant THEN orElse(detectScope(c.docsFiles), "docs")
                      ELSE c.scope
        finalNoun == IF c.docsSignificant THEN orElse(c.docTopic, "documentation")
                     ELSE c.selectedDesc.noun
    IN  IF c.isMixed THEN left \o "; " \o right
        ELSE finalType \o parens(finalScope) \o ": " \o finalNoun

docsRight(c) ==
    LET docsScope == IF hasReadme(c.docsFiles) THEN "README" ELSE "docs"
    IN  pickVerb("docs", "docs", c.variant) \o " "
        \o (IF c.docTopic # ""
            THEN (IF docsScope = "README" THEN "README " \o c.docTopic ELSE c.docTopic)
            ELSE docsScope)

\* the plain candidate built from the primary description whatever the docs are
plainCandidateOfSelected(c) ==
    capitalizeFirst(c.selectedDesc.verb \o " " \o c.selectedDesc.noun)

plainCandidate(c) ==
    LET finalVerb == IF c.docsSignificant THEN pickVerb("docs", "docs", c.variant)
                     ELSE c.selectedDesc.verb
        finalNoun == IF c.docsSignificant THEN orElse(c.docTopic, "documentation")
                     ELSE c.selectedDesc.noun
    IN  IF c.isMixed
        THEN capitalizeFirst(c.selectedDesc.verb) \o " " \o c.selectedDesc.noun
             \o " and " \o docsRight(c)
        ELSE capitalizeFirst(finalVerb \o " " \o finalNoun)

gitmojiCandidate(c) ==
    LET finalType == IF c.docsSignificant THEN "docs" ELSE c.type
        left == getEmoji(c.type) \o " " \o c.selectedDesc.verb \o " " \o c.selectedDesc.noun
        finalNoun == IF c.docsSignificant THEN orElse(c.docTopic, "documentation")
                     ELSE c.selectedDesc.noun
        scopePart(finalScope) == IF finalScope # "" THEN finalScope \o ": " ELSE ""
    IN  IF c.isMixed THEN left \o "; " \o ":memo: " \o docsRight(c)
        ELSE getEmoji(finalType) \o " "
             \o scopePart(IF c.docsSignificant THEN orElse(detectScope(c.docsFiles), "docs")
                          ELSE c.scope)
             \o finalNoun

\* the renderings with the plain one in front
styleCandidatesPlainFirst(c) ==
    (IF c.style \in {"plain", "mix"} THEN <<plainCandidate(c)>> ELSE <<>>)
    \o (IF c.style \in {"conv", "mix"} THEN <<convCandidate(c)>> ELSE <<>>)
    \o (IF c.style \in {"gitmoji", "mix"} THEN <<gitmojiCandidate(c)>> ELSE <<>>)

\* conv, plain and gitmoji renderings, in this order; mix takes all three
styleCandidates(c) ==
    (IF c.style \in {"conv", "mix"} THEN <<convCandidate(c)>> ELSE <<>>)
    \o (IF c.style \in {"plain", "mix"} THEN <<plainCandidate(c)>> ELSE <<>>)
    \o (IF c.style \in {"gitmoji", "mix"} THEN <<gitmojiCandidate(c)>> ELSE <<>>)

alternative(c, altDesc) ==
    IF c.style = "conv" THEN c.type \o parens(c.scope) \o ": " \o altDesc.noun
    ELSE IF c.style = "gitmoji"
    THEN getEmoji(c.type) \o " " \o (IF c.scope # "" THEN c.scope \o ": " ELSE "")
         \o altDesc.noun
    ELSE capitalizeFirst(altDesc.verb \o " " \o altDesc.noun)

\* altIndex counts from 0 as in the source; descriptions is 1-based here
RECURSIVE fillAlternatives(_, _, _)
fillAlternatives(candidates, altIndex, c) ==
    IF Len(candidates) < 3 /\ altIndex < Len(c.descriptions)
    THEN LET altDesc == c.descriptions[altIndex + 1]
             taken == \E i \in 1..Len(candidates) : endsWith(candidates[i], altDesc.noun)
         IN  fillAlternatives(IF taken THEN candidates
                              ELSE Append(candidates, alternative(c, altDesc)),
                              altIndex + 1, c)
    ELSE candidates

\* no fill-up at all
finalFallbackNone(candidates, scope) == candidates

RECURSIVE finalFallback(_, _)
finalFallback(candidates, scope) ==
    IF Len(candidates) < 3
    THEN finalFallback(Append(candidates, "Update " \o orElse(scope, "project") \o " files"),
                       scope)
    ELSE candidates

\* the first three candidates, repeated ones kept
dedupeCandidatesKept(candidates) == take(candidates, 3)

dedupeCandidates(candidates) == take(uniqueSeq(candidates), 3)

\* the candidates built from the locals c
candidatesOf(c) ==
    dedupeCandidates(finalFallback(fillAlternatives(styleCandidates(c), 1, c), c.scope))

generateHeuristic(changes, config) == candidatesOf(heuristicLocals(changes, config))

\* ------------------------------------------ heuristic.ts: verbs and nouns

\* the printable ASCII characters in code order: 32..95 and 97..126
AsciiLow ==
    " !\"#$%&'()*+,-./0123456789:;<=>?@ABCDEFGHIJKLMNOPQRSTUVWXYZ[\\]^_"

AsciiHigh == "abcdefghijklmnopqrstuvwxyz{|}~"

\* c.charCodeAt(0)
charCode(c) ==
    IF includes(AsciiLow, c) THEN 31 + letterIndex(AsciiLow, c)
    ELSE 96 + letterIndex(AsciiHigh, c)

\* s.split('').reduce((a, c) => a + c.charCodeAt(0), 0)
RECURSIVE charCodeSum(_)
charCodeSum(s) == IF s = "" THEN 0 ELSE charCode(charAt(s, 1)) + charCodeSum(slice(s, 1))

seededIndex(length, seed, salt) ==
    LET mixed == (seed * 9301 + 49297 + salt * 233) % 233280
    IN  IF length > 0 THEN mixed % length ELSE 0

VerbPoolsH ==
    << <<"docs", <<"clarify", "update", "improve", "refine">> >>,
       <<"refactor", <<"adjust", "refactor", "simplify", "restructure">> >>,
       <<"chore", <<"refine", "update", "tune", "maintain">> >>,
       <<"feat", <<"introduce", "add", "implement">> >>,
       <<"fix", <<"fix", "address", "resolve", "correct">> >>,
       <<"perf", <<"optimize", "improve", "enhance">> >>,
       <<"default", <<"update", "improve", "modify">> >> >>

poolKeyH(type, domain) ==
    IF domain = "docs" THEN "docs"
    ELSE IF mapHas(VerbPoolsH, type) THEN type
    ELSE "default"

poolIndexH(key, variant) ==
    seededIndex(Len(poolOf(VerbPoolsH, key)), variant, charCodeSum(key))

pickVerbH(type, domain, variant) ==
    LET key == poolKeyH(type, domain)
    IN  poolOf(VerbPoolsH, key)[poolIndexH(key, variant) + 1]

getDefaultVerbH(type, variant) == pickVerbH(type, "code", variant)

getEmojiH(type) == IF type = "revert" THEN ":rewind:" ELSE getEmoji(type)

getActionH(status, type) ==
    CASE status = "A" -> (IF type = "feat" THEN "add" ELSE "create")
      [] status = "D" -> "remove"
      [] status = "R" -> "rename"
      [] OTHER ->
            CASE type = "feat" -> "add"
              [] type = "fix" -> "fix"
              [] type = "refactor" -> "refactor"
              [] type = "style" -> "style"
              [] type = "perf" -> "optimize"
              [] OTHER -> "update"

categoryOfPathH(path) ==
    IF endsWithAny(path, {".tsx", ".jsx"}) THEN "components"
    ELSE IF endsWithAny(path, {".ts", ".js"})
    THEN (IF includes(path, "/engines/") THEN "engine"
          ELSE IF includes(path, "/cli") THEN "cli"
          ELSE "code")
    ELSE IF endsWithAny(path, {".css", ".scss", ".less"}) THEN "styles"
    ELSE IF includesAny(path, {".test.", ".spec.", "__tests__"}) THEN "tests"
    ELSE IF endsWithAny(path, {".md", ".txt", ".rst", ".adoc"}) THEN "docs"
    ELSE IF includesAny(path, {"api", "route", "endpoint"}) THEN "API"
    ELSE IF includesAny(path, {"config", "settings"}) THEN "config"
    ELSE IF endsWith(path, ".py") THEN "modules"
    ELSE "files"

categoryOfH(file) == categoryOfPathH(slashes(file.path))

\* a new file weighs twice its churn
effectiveWeightH(file) == IF file.status = "A" THEN churn(file) * 2 ELSE churn(file)

RECURSIVE categorizeIntoH(_, _)
categorizeIntoH(files, m) ==
    IF Len(files) = 0 THEN m
    ELSE categorizeIntoH(Tail(files),
                         mapAdd(m, categoryOfH(files[1]), effectiveWeightH(files[1])))

categorizeFilesH(files) == categorizeIntoH(files, <<>>)

\* path.split('/').pop().replace(/\.[^.]+$/, '')
baseNameH(path) == stripExtension(last(split(path, "/")))

\* /^shared|heuristic$/i
sharedOrHeuristic(lower) == startsWith(lower, "shared") \/ endsWith(lower, "heuristic")

isSharedOrHeuristicH(n) == sharedOrHeuristic(toLowerCase(n))

detectEngineNounH(files) ==
    LET targetOf(engineFiles, added) == IF Len(added) > 0 THEN added ELSE engineFiles
        keptOf(target) ==
            SelectSeq([i \in 1..Len(target) |-> baseNameH(slashes(target[i].path))],
                      LAMBDA n : ~isSharedOrHeuristicH(n))
        namesOf(kept) == [i \in 1..Len(kept) |-> capitalizeFirst(kept[i])]
        nounOf(engineFiles, names) ==
            IF Len(engineFiles) = 0 THEN ""
            ELSE IF Len(names) = 0 THEN "engines"
            ELSE IF Len(names) = 1 THEN names[1] \o " engine"
            ELSE IF Len(names) = 2 THEN join(names, " and ") \o " engines"
            ELSE join(take(names, 2), ", ") \o " and other engines"
        among(engineFiles) ==
            nounOf(engineFiles,
                   namesOf(keptOf(targetOf(engineFiles,
                                           SelectSeq(engineFiles, LAMBDA f : f.status = "A")))))
    IN  among(SelectSeq(files, LAMBDA f : includes(f.path, "/engines/")))

prettifyCategoryH(category, files) ==
    CASE category = "engine" -> orElse(detectEngineNounH(files), "engines")
      [] category = "cli" -> "CLI"
      [] category \in {"api", "API"} -> "API"
      [] category = "ui" -> "UI"
      [] category = "config" -> "configuration"
      [] OTHER -> category

\* parts.slice(0, -1).join(', ') + ', and ' + the last part
oxfordJoin(parts) == join(dropLast(parts), ", ") \o ", and " \o last(parts)

buildCategoryNounH(files) ==
    LET partsOf(top) ==
            SelectSeq([i \in 1..Len(top) |-> prettifyCategoryH(top[i], files)],
                      LAMBDA k : k # "")
        nounOf(parts) ==
            IF Len(files) = 0 THEN ""
            ELSE IF Len(parts) = 1 THEN parts[1]
            ELSE IF Len(parts) = 2 THEN join(parts, " and ")
            ELSE oxfordJoin(parts)
    IN  nounOf(partsOf(take(mapKeys(sortByWeight(categorizeFilesH(files))), 3)))

buildSubjectH(files, type, includeVerb) ==
    LET file == files[1]
        ids == trim(split(file.summary, ",")[1])
        action == getActionH(IF Len(files) > 0 THEN files[1].status ELSE "M", type)
        named(cat, engineNoun) ==
            IF cat = "engine" THEN orElse(engineNoun, "engines") ELSE cat
        single(prefix, fileName) ==
            IF file.summary # "" THEN prefix \o ids \o " in " \o fileName
            ELSE prefix \o fileName
        several(prefix, categories, topCategories, engineNoun) ==
            IF Len(categories) = 1
            THEN prefix
                 \o (IF categories[1][1] = "engine" THEN orElse(engineNoun, "engine")
                     ELSE categories[1][1])
                 \o " across " \o ToString(Len(files)) \o " files"
            ELSE IF Len(topCategories) = 2
            THEN prefix \o named(topCategories[1], engineNoun) \o " and "
                 \o named(topCategories[2], engineNoun)
            ELSE prefix \o ToString(Len(files)) \o " files"
        categorized(prefix, categories) ==
            several(prefix, categories, take(mapKeys(sortByWeight(categories)), 2),
                    detectEngineNounH(files))
        subject(prefix) ==
            IF Len(files) = 1
            THEN single(prefix, orElse(baseNameH(slashes(file.path)), "file"))
            ELSE categorized(prefix, categorizeFilesH(files))
    IN  subject(IF includeVerb THEN action \o " " ELSE "")

\* ------------------------------------------ heuristic.ts: classification

ScopeOrderH == <<"engine", "cli", "api", "auth", "db", "config", "build", "test", "ui", "docs">>

\* /\.(md|rst|adoc)\b/
hasDocExtensionWordH(path) ==
    \E e \in {".md", ".rst", ".adoc"} :
        \E i \in 1..(Len(path) - Len(e) + 1) :
            startsWithAt(path, i, e) /\ wordBoundaryAt(path, i + Len(e))

domainMatchesH(domain, path) ==
    \/ matchesAnyWord(path,
            CASE domain = "engine" ->
                    {"engine", "engines", "heuristic", "ollama", "openai", "gemini",
                     "anthropic", "claude"}
              [] domain = "cli" -> {"cli", "command", "bin"}
              [] domain = "api" -> {"api", "endpoint", "route", "controller"}
              [] domain = "auth" -> {"auth", "login", "session", "token", "oauth", "jwt"}
              [] domain = "db" -> {"database", "db", "model", "schema", "migration"}
              [] domain = "config" -> {"config", "setting", "env"}
              [] domain = "build" -> {"build", "webpack", "vite", "rollup", "babel"}
              [] domain = "test" -> {"test", "spec", "__tests__"}
              [] domain = "ui" -> {"ui", "component", "view", "page", "layout"}
              [] domain = "docs" -> {"readme", "docs", "changelog", "contributing"})
    \/ domain = "docs" /\ hasDocExtensionWordH(path)

normalizeH(p) == toLowerCase(slashes(p))

SkippedDirsH ==
    {"src", "lib", "dist", "build", ".", "node_modules", "packages", "apps", "public",
     "assets", "scripts"}

\* the last meaningful directory, dropped when longer than 15 characters
lastMeaningfulH(parts) ==
    LET meaningful == SelectSeq(parts, LAMBDA p : p \notin SkippedDirsH)
        scope == IF Len(meaningful) > 0 THEN last(meaningful) ELSE ""
    IN  IF scope # "" /\ Len(scope) <= 15 THEN scope ELSE ""

\* the directories shared by every path, from the left
RECURSIVE commonPartsH(_, _)
commonPartsH(allParts, i) ==
    IF /\ \A k \in 1..Len(allParts) : i <= Len(allParts[k])
       /\ \A k \in 1..Len(allParts) : allParts[k][i] = allParts[1][i]
    THEN <<allParts[1][i]>> \o commonPartsH(allParts, i + 1)
    ELSE <<>>

\* counts after the docs domain is zeroed for a change set with code
domainCountsH(files) ==
    LET count(domain, paths, anyCode) ==
            IF domain = "docs" /\ anyCode THEN 0
            ELSE sumSeq([i \in 1..Len(files) |->
                            IF domainMatchesH(domain, paths[i]) THEN churn(files[i]) ELSE 0])
        counted(paths) ==
            [i \in 1..Len(ScopeOrderH) |->
                <<ScopeOrderH[i],
                  count(ScopeOrderH[i], paths, \E k \in 1..Len(files) : ~isDocFile(paths[k]))>>]
    IN  counted([i \in 1..Len(files) |-> normalizeH(files[i].path)])

\* the fallback of detectScope: the directory of one file, the common one of several
pathScopeH(files) ==
    LET scopeOf(allParts) ==
            IF Len(files) = 0 THEN ""
            ELSE IF Len(files) = 1 THEN lastMeaningfulH(allParts[1])
            ELSE lastMeaningfulH(commonPartsH(allParts, 1))
    IN  scopeOf([i \in 1..Len(files) |-> dropLast(split(normalizeH(files[i].path), "/"))])

detectScopeH(files) ==
    LET totalOf(codeTotal, weights) == IF codeTotal # 0 THEN codeTotal ELSE sumSeq(weights)
        scopeOf(ranked, totalCodeWeight) ==
            IF Len(files) = 0 THEN ""
            ELSE IF /\ Len(ranked) > 0
                    /\ (2 * ranked[1][2] >= max(1, totalCodeWeight) \/ ranked[1][2] >= 2)
            THEN ranked[1][1]
            ELSE pathScopeH(files)
        weighed(paths, weights, codeMask) ==
            scopeOf(sortByWeight(SelectSeq(domainCountsH(files), LAMBDA c : c[2] > 0)),
                    totalOf(sumSeq([i \in 1..Len(files) |->
                                       IF codeMask[i] THEN weights[i] ELSE 0]),
                            weights))
        normalized(paths) ==
            weighed(paths, [i \in 1..Len(files) |-> churn(files[i])],
                    [i \in 1..Len(files) |-> ~isDocFile(paths[i])])
    IN  normalized([i \in 1..Len(files) |-> normalizeH(files[i].path)])

\* /\/engines\/[^/]+\.(ts|js)$/
isEngineSourceH(path) ==
    \E i \in 1..Len(path) :
        /\ startsWithAt(path, i, "/engines/")
        /\ LET rest == SubSeq(path, i + 9, Len(path))
           IN  /\ Len(rest) >= 4
               /\ endsWithAny(rest, {".ts", ".js"})
               /\ ~includes(SubSeq(rest, 1, Len(rest) - 3), "/")

isNewEngineH(f) ==
    f.status = "A" /\ isEngineSourceH(f.path) /\ ~includes(f.path, "heuristic.")

isNewSharedH(f) ==
    f.status = "A" /\ endsWithAny(f.path, {"/engines/shared.ts", "/engines/shared.js"})

isModifiedEngineH(f) ==
    /\ f.status = "M"
    /\ isEngineSourceH(f.path)
    /\ ~includesAny(toLowerCase(f.path), {"heuristic.", "shared."})

\* the capitalized base names of the files, empty names dropped
engineNamesH(files) ==
    LET stems == SelectSeq([i \in 1..Len(files) |-> baseNameH(files[i].path)],
                           LAMBDA n : n # "")
    IN  [i \in 1..Len(stems) |-> capitalizeFirst(stems[i])]

detectPrimaryFocusH(files, diff) ==
    LET modifiedHeuristic ==
            \E i \in 1..Len(files) :
                /\ files[i].status = "M"
                /\ endsWithAny(files[i].path, {"/engines/heuristic.ts", "/engines/heuristic.js"})
        partsOf(engineNames, newShared) ==
            (IF Len(engineNames) > 0
             THEN <<join(engineNames, " and ") \o " integration">> ELSE <<>>)
            \o (IF Len(newShared) > 0 THEN <<"shared utilities">> ELSE <<>>)
        inScope(path, scope) ==
            includes(path, toLowerCase(scope)) \/ includes(path, "/" \o scope \o "/")
        scopeFilesOf(scope) == SelectSeq(files, LAMBDA f : inScope(normalizeH(f.path), scope))
        focusOf(newEngines, newShared, modifiedEngines, engineNames, parts, scope, cats) ==
            IF Len(files) = 0 THEN [focus |-> "generic", detail |-> "", weight |-> 1]
            ELSE IF (Len(newEngines) > 0 \/ Len(newShared) > 0) /\ Len(modifiedEngines) >= 2
            THEN [focus |-> "engine-refactor",
                  detail |-> "engine architecture with "
                             \o (IF Len(parts) > 1 THEN join(parts, " and ")
                                 ELSE IF Len(parts) = 1 THEN parts[1]
                                 ELSE "shared utilities"),
                  weight |-> 10]
            ELSE IF Len(newEngines) > 0 /\ Len(modifiedEngines) >= 1
            THEN [focus |-> "new-engine",
                  detail |-> (IF Len(engineNames) = 1 THEN engineNames[1]
                              ELSE join(take(engineNames, 2), " and ")) \o " engine support",
                  weight |-> 8]
            ELSE IF Len(newEngines) = 1 /\ Len(modifiedEngines) = 0
            THEN [focus |-> "new-engine",
                  detail |-> capitalizeFirst(baseNameH(newEngines[1].path)) \o " engine",
                  weight |-> 7]
            ELSE IF Len(newEngines) > 1
            THEN [focus |-> "new-engine",
                  detail |-> join(take(engineNames, 2), " and ") \o " engines",
                  weight |-> 7]
            ELSE IF Len(modifiedEngines) >= 3
            THEN [focus |-> "multi-engine", detail |-> "multiple engines", weight |-> 6]
            ELSE IF Len(newShared) > 0 /\ (Len(modifiedEngines) >= 2 \/ modifiedHeuristic)
            THEN [focus |-> "engine-refactor", detail |-> "engine architecture", weight |-> 9]
            ELSE IF Len(files) = 1
            THEN [focus |-> "single-file", detail |-> baseNameH(files[1].path), weight |-> 3]
            ELSE IF scope # "" /\ 10 * Len(scopeFilesOf(scope)) >= 6 * Len(files)
            THEN [focus |-> "scope-specific", detail |-> scope, weight |-> 5]
            ELSE IF Len(cats) >= 2
            THEN [focus |-> "multi-category",
                  detail |-> join(take(mapKeys(cats), 3), ","), weight |-> 4]
            ELSE [focus |-> "generic", detail |-> "", weight |-> 2]
        named(newEngines, newShared, engineNames) ==
            focusOf(newEngines, newShared, SelectSeq(files, isModifiedEngineH), engineNames,
                    partsOf(engineNames, newShared), detectScopeH(files),
                    categorizeFilesH(files))
        engines(newEngines) ==
            named(newEngines, SelectSeq(files, isNewSharedH), engineNamesH(newEngines))
    IN  engines(SelectSeq(files, isNewEngineH))

\* /a.*b/ inside one line: a, and later on the same line b
RECURSIVE anyLine(_, _, _)
anyLine(lines, a, b) ==
    LET then(line, k) == k > 0 /\ indexFrom(line, b, k + Len(a)) > 0
    IN  IF Len(lines) = 0 THEN FALSE
        ELSE then(lines[1], indexFrom(lines[1], a, 1)) \/ anyLine(Tail(lines), a, b)

\* /\b(null|undefined).*check\b/ inside one line
nullCheckLineH(line) ==
    \E w \in {"null", "undefined"} :
        \E i \in 1..Len(line) :
            /\ startsWithAt(line, i, w)
            /\ wordBoundaryAt(line, i)
            /\ \E j \in (i + Len(w))..Len(line) :
                   startsWithAt(line, j, "check") /\ wordBoundaryAt(line, j + 5)

CodeExtensionsH ==
    {".ts", ".tsx", ".js", ".jsx", ".py", ".go", ".rs", ".java", ".cs", ".rb", ".php"}

detectChangeTypeH(files, diff, primaryFocus) ==
    LET some(test(_)) == \E i \in 1..Len(files) : test(files[i])
        allDocs == \A i \in 1..Len(files) : isDocFile(files[i].path)
        fixStrong(text) == matchesAnyWord(text, {"fix", "bug", "issue", "patch", "resolve",
                                                 "resolves", "resolved"})
        fixWeakCount(text, lines) ==
            (IF matchesAnyWord(text, {"throw", "catch", "try", "error", "exception"})
             THEN 1 ELSE 0)
            + (IF \E i \in 1..Len(lines) : nullCheckLineH(lines[i]) THEN 1 ELSE 0)
            + (IF anyLine(lines, "test", "fail") THEN 1 ELSE 0)
        isTestChange(text) ==
            \/ some(LAMBDA f : isTestPath(f.path))
            \/ matchesAnyWord(text, {"test", "spec", "jest", "mocha", "pytest"})
        isRefactor(text, addedCode) ==
            \/ matchesAnyWord(text, {"refactor", "restructure", "reorganize", "cleanup",
                                     "simplify"})
            \/ /\ \A i \in 1..Len(files) :
                      /\ files[i].status = "M"
                      /\ files[i].additions > 0
                      /\ files[i].deletions > 0
               /\ ~addedCode
        isStyle(text) ==
            \/ some(LAMBDA f : isStylePath(f.path))
            \/ matchesAnyWord(text, {"style", "format", "prettier", "eslint", "lint"})
        isChore(text) ==
            \/ some(LAMBDA f : includesAny(f.path, {"package.json", "package-lock",
                                                    "yarn.lock", "Cargo.toml", "go.mod"}))
            \/ matchesAnyWord(text, {"deps", "dependency", "dependencies", "version",
                                     "bump", "upgrade", "lockfile"})
        typeOf(text, addedCode, testChange) ==
            IF allDocs THEN "docs"
            ELSE IF primaryFocus.focus = "engine-refactor" THEN "refactor"
            ELSE IF primaryFocus.focus \in {"new-engine", "multi-engine"} THEN "feat"
            ELSE IF addedCode THEN "feat"
            ELSE IF fixStrong(text) /\ (fixWeakCount(text, split(text, "\n")) >= 1 \/ testChange)
            THEN "fix"
            ELSE IF testChange THEN "test"
            ELSE IF isRefactor(text, addedCode) THEN "refactor"
            ELSE IF isStyle(text) THEN "style"
            ELSE IF isChore(text) THEN "chore"
            ELSE IF files[1].status = "A" THEN "feat"
            ELSE "chore"
        lowered(text) ==
            typeOf(text,
                   some(LAMBDA f : f.status = "A" /\ endsWithAny(f.path, CodeExtensionsH)),
                   isTestChange(text))
    IN  lowered(toLowerCase(diff))

\* ------------------------------------------------ heuristic.ts: documents

\* /^diff --git a\/(.+?) b\/(.+)$/ : the two paths, <<>> when the line is no header
diffHeaderH(line) ==
    LET cutAtB(rest, k) ==
            IF k = 0 THEN <<>> ELSE <<SubSeq(rest, 1, k - 1), SubSeq(rest, k + 3, Len(rest))>>
        paths(rest) == cutAtB(rest, least({k \in 2..(Len(rest) - 3) : startsWithAt(rest, k, " b/")}))
    IN  IF ~startsWith(line, "diff --git a/") THEN <<>> ELSE paths(SubSeq(line, 14, Len(line)))

RECURSIVE keepLinesH(_, _, _)
keepLinesH(lines, include, wanted) ==
    LET nowOf(m) == IF m # <<>>
                    THEN slashes(m[1]) \in wanted \/ slashes(m[2]) \in wanted
                    ELSE include
        kept(now) == (IF now THEN <<lines[1]>> ELSE <<>>) \o keepLinesH(Tail(lines), now, wanted)
    IN  IF Len(lines) = 0 THEN <<>> ELSE kept(nowOf(diffHeaderH(lines[1])))

buildDiffForFilesH(diff, files) ==
    LET wanted == {slashes(files[i].path) : i \in {j \in 1..Len(files) : files[j].path # ""}}
    IN  IF diff = "" \/ Len(files) = 0 THEN ""
        ELSE trim(join(keepLinesH(split(diff, "\n"), FALSE, wanted), "\n"))

\* /^[+].*#+\s+/
isHeadingLineH(l) ==
    /\ startsWith(l, "+")
    /\ \E i \in 2..(Len(l) - 1) : charAt(l, i) = "#" /\ isSpace(charAt(l, i + 1))

\* l.replace(/^\+\s*/, '').replace(/^#+\s+/, '').toLowerCase()
headingTextH(l) ==
    LET stripped(body, r, t) == IF r > 1 /\ t > r THEN SubSeq(body, t, Len(body)) ELSE body
        hashes(body, r) == stripped(body, r, skipSpace(body, r))
        marked(body) == hashes(body, skipHashes(body, 1))
    IN  toLowerCase(marked(SubSeq(l, afterPlus(l), Len(l))))

\* /getting\s+started/
hasGettingStartedH(h) ==
    \E i \in 1..Len(h) :
        /\ startsWithAt(h, i, "getting")
        /\ skipSpace(h, i + 7) > i + 7
        /\ startsWithAt(h, skipSpace(h, i + 7), "started")

headingTopicH(h) ==
    IF includesAny(h, {"install", "setup"}) \/ hasGettingStartedH(h) THEN "installation"
    ELSE IF includesAny(h, {"usage", "run", "command"}) THEN "usage"
    ELSE IF includesAny(h, {"example", "demo", "sample"}) THEN "examples"
    ELSE IF includesAny(h, {"config", "configuration", "env"}) THEN "configuration"
    ELSE IF includesAny(h, {"api", "reference", "endpoint"}) THEN "API reference"
    ELSE IF includesAny(h, {"troubleshooting", "faq"}) THEN "troubleshooting"
    ELSE IF includes(h, "contribut") THEN "contributing"
    ELSE IF includesAny(h, {"changelog", "release"}) THEN "changelog"
    ELSE ""

hasLinkH(l) == includesAny(toLowerCase(l), {"http://", "https://"})

extractDocsTopicH(diff) ==
    LET changedLine(l) == startsWith(l, "+") \/ startsWith(l, "-")
        fromHeading(lines, first) ==
            IF first = 0 THEN "" ELSE headingTopicH(headingTextH(lines[first]))
        links(lines) == {i \in 1..Len(lines) : changedLine(lines[i]) /\ hasLinkH(lines[i])}
        smallTextOnly(lines) ==
            /\ \A i \in 1..Len(lines) : ~startsWith(lines[i], "diff --git ")
            /\ Cardinality({i \in 1..Len(lines) : changedLine(lines[i])}) < 10
        topicOf(lines, text, heading) ==
            IF diff = "" THEN ""
            ELSE IF heading # "" THEN heading
            ELSE IF matchesWordStart(text, "install") \/ matchesWordEnd(text, "setup")
            THEN "installation"
            ELSE IF matchesWordStart(text, "usage") \/ matchesWordEnd(text, "command")
            THEN "usage"
            ELSE IF matchesWordStart(text, "example") \/ matchesWordEnd(text, "sample")
            THEN "examples"
            ELSE IF \/ matchesWordStart(text, "config")
                    \/ includes(text, "configuration")
                    \/ matchesWordEnd(text, "env")
            THEN "configuration"
            ELSE IF matchesWord(text, "api") THEN "API reference"
            ELSE IF matchesWordStart(text, "changelog") \/ matchesWordEnd(text, "release")
            THEN "changelog"
            ELSE IF matchesWordStart(text, "contribut") THEN "contributing"
            ELSE IF links(lines) # {} THEN "links"
            ELSE IF smallTextOnly(lines) THEN "typos"
            ELSE ""
        read(lines) ==
            topicOf(lines, toLowerCase(diff),
                    fromHeading(lines, least({i \in 1..Len(lines) : isHeadingLineH(lines[i])})))
    IN  read(split(diff, "\n"))

\* ------------------------------------------ heuristic.ts: descriptions

getVerbForFocusH(focus, type, variant) ==
    IF focus = "engine-refactor" THEN "refactor"
    ELSE IF focus = "new-engine" THEN (IF type = "feat" THEN "add" ELSE "implement")
    ELSE IF focus = "multi-engine" THEN "update"
    ELSE getDefaultVerbH(type, variant)

\* the index after a maximal run of [a-z] from i
RECURSIVE skipLower(_, _)
skipLower(s, i) == IF isLower(charAt(s, i)) THEN skipLower(s, i + 1) ELSE i

\* /\b([A-Z][a-z]+)\s+(engine|integration)/ : the first capture, "" without a match
engineMatchH(detail) ==
    LET tail(j, k) ==
            k > j /\ \E w \in {"engine", "integration"} : startsWithAt(detail, k, w)
        name(i, j) == j > i + 1 /\ tail(j, skipSpace(detail, j))
        ok(i) == /\ wordBoundaryAt(detail, i)
                 /\ isUpper(charAt(detail, i))
                 /\ name(i, skipLower(detail, i + 1))
        captured(first) ==
            IF first = 0 THEN "" ELSE SubSeq(detail, first, skipLower(detail, first + 1) - 1)
    IN  captured(least({i \in 1..Len(detail) : ok(i)}))

listPhraseH(parts) ==
    IF Len(parts) = 1 THEN parts[1]
    ELSE IF Len(parts) = 2 THEN join(parts, " and ")
    ELSE oxfordJoin(parts)

primaryDescriptionH(files, type, primaryFocus) ==
    LET focus == primaryFocus.focus
        described(primaryVerb, categoryNoun) ==
            IF focus \in {"new-engine", "multi-engine", "single-file"}
            THEN [verb |-> primaryVerb, noun |-> primaryFocus.detail]
            ELSE IF focus = "engine-refactor"
            THEN [verb |-> "refactor", noun |-> primaryFocus.detail]
            ELSE IF focus = "scope-specific"
            THEN [verb |-> primaryVerb,
                  noun |-> orElse(categoryNoun, primaryFocus.detail \o " implementation")]
            ELSE IF focus = "multi-category"
            THEN [verb |-> primaryVerb, noun |-> orElse(categoryNoun, "multiple components")]
            ELSE [verb |-> primaryVerb, noun |-> buildSubjectH(files, type, FALSE)]
    IN  described(getVerbForFocusH(primaryFocus.focus, type, 0), buildCategoryNounH(files))

supportingDescriptionH(files, type, primaryFocus) ==
    LET some(names) == \E i \in 1..Len(files) : includesAny(files[i].path, names)
        supporting(supportingParts) ==
            IF primaryFocus.focus \in {"engine-refactor", "new-engine"}
               /\ Len(supportingParts) > 0
            THEN <<[verb |-> getVerbForFocusH(primaryFocus.focus, type, 0),
                    noun |-> orElse(engineMatchH(primaryFocus.detail), "engine")
                             \o " with " \o listPhraseH(supportingParts) \o " updates"]>>
            ELSE <<>>
    IN  supporting((IF some({"config.ts", "config.js", "config.json"})
                    THEN <<"configuration">> ELSE <<>>)
                   \o (IF some({"cli.ts", "cli.js"}) THEN <<"CLI">> ELSE <<>>)
                   \o (IF some({"generator.ts", "generator.js"})
                       THEN <<"generator">> ELSE <<>>))

affectedEnginesH(descriptions, files, type, primaryFocus, variant) ==
    LET namesOf(modified) ==
            take(SelectSeq([i \in 1..Len(modified) |->
                               capitalizeFirst(baseNameH(modified[i].path))],
                           LAMBDA n : n # ""), 2)
        affected(names) ==
            IF /\ Len(descriptions) < 3
               /\ primaryFocus.focus \in {"engine-refactor", "multi-engine"}
               /\ Len(names) > 0
            THEN <<[verb |-> getDefaultVerbH(type, variant),
                    noun |-> IF Len(names) = 1 THEN names[1] \o " engine"
                             ELSE join(names, " and ") \o " engines"]>>
            ELSE <<>>
    IN  affected(namesOf(SelectSeq(files, isModifiedEngineH)))

categoryDescriptionH(descriptions, files, type, primaryFocus, categories, variant) ==
    LET pretty(top) ==
            SelectSeq([i \in 1..Len(top) |-> prettifyCategoryH(top[i], files)],
                      LAMBDA cat : toLowerCase(cat) \notin {"code", "files"})
        categorized(topCategories) ==
            IF /\ Len(categories) >= 2
               /\ primaryFocus.focus # "multi-category"
               /\ Len(descriptions) < 4
               /\ Len(topCategories) >= 2
            THEN <<[verb |-> getDefaultVerbH(type, variant),
                    noun |-> join(topCategories, " and ")]>>
            ELSE <<>>
    IN  categorized(pretty(take(mapKeys(sortByWeight(categories)), 2)))

scopeDescriptionH(descriptions, files, type, primaryFocus, scope, categories, variant) ==
    LET scoped(catName) ==
            IF /\ scope # ""
               /\ primaryFocus.focus # "scope-specific"
               /\ Len(descriptions) < 5
               /\ Len(categories) > 0
               /\ toLowerCase(catName) # toLowerCase(scope)
            THEN <<[verb |-> getDefaultVerbH(type, variant),
                    noun |-> scope \o " " \o catName]>>
            ELSE <<>>
    IN  scoped(prettifyCategoryH(sortByWeight(categories)[1][1], files))

fallbackDescriptionH(descriptions, files, type, variant) ==
    LET clash(noun, fallback) ==
            noun = fallback \/ includes(noun, fallback) \/ includes(fallback, noun)
        isDuplicate(fallback) ==
            \E i \in 1..Len(descriptions) : clash(toLowerCase(descriptions[i].noun), fallback)
        fallen(subject) ==
            IF Len(descriptions) < 3 /\ ~isDuplicate(toLowerCase(subject))
            THEN <<[verb |-> getDefaultVerbH(type, variant), noun |-> subject]>>
            ELSE <<>>
    IN  fallen(buildSubjectH(files, type, FALSE))

buildDescriptionsH(files, type, primaryFocus, scope, categories, variant) ==
    LET supported(d) == d \o supportingDescriptionH(files, type, primaryFocus)
        engines(d) == d \o affectedEnginesH(d, files, type, primaryFocus, variant)
        categorized(d) ==
            d \o categoryDescriptionH(d, files, type, primaryFocus, categories, variant)
        scoped(d) ==
            d \o scopeDescriptionH(d, files, type, primaryFocus, scope, categories, variant)
        fallen(d) == d \o fallbackDescriptionH(d, files, type, variant)
    IN  fallen(scoped(categorized(engines(supported(
            <<primaryDescriptionH(files, type, primaryFocus)>>)))))

AlternativeTypesH == {"feat", "fix", "refactor", "docs", "test", "style", "chore", "perf"}

alternativePoolH(files, type, scope) ==
    LET target == orElse(scope, "code")
        names == SelectSeq([i \in 1..Len(files) |-> last(split(slashes(files[i].path), "/"))],
                           LAMBDA n : n # "")
        shortList == join(take(names, 2), " and ")
        where == orElse(shortList, target)
    IN  CASE type = "feat" ->
                <<"introduce " \o target \o " changes", "add improvements to " \o target,
                  "implement updates in " \o where>>
          [] type = "fix" ->
                <<"address issues in " \o target, "fix problems in " \o where,
                  "resolve edge cases in " \o target>>
          [] type = "refactor" ->
                <<"simplify " \o target \o " structure", "refactor " \o where,
                  "clean up " \o target>>
          [] type = "docs" ->
                <<"update documentation", "clarify README", "improve docs for " \o target>>
          [] type = "test" ->
                <<"add or update tests", "improve test coverage",
                  "adjust tests for " \o where>>
          [] type = "style" ->
                <<"apply formatting updates", "style tweaks in " \o where,
                  "format " \o target>>
          [] type = "chore" ->
                <<"update configuration", "maintenance updates",
                  "tune settings for " \o target>>
          [] type = "perf" ->
                <<"optimize " \o target \o " performance",
                  "improve efficiency in " \o where, "performance tweaks">>
          [] OTHER ->
                <<"update " \o target \o " with " \o ToString(Len(files)) \o " change"
                  \o (IF Len(files) > 1 THEN "s" ELSE ""),
                  "improve " \o target, "modify " \o where>>

generateAlternative(files, type, scope, variant, index) ==
    LET pool == alternativePoolH(files, type, scope)
        salt == charCodeSum(type \o orElse(scope, "code") \o ToString(index))
    IN  pool[seededIndex(Len(pool), variant, salt) + 1]

\* ---------------------------------------- heuristic.ts: generateHeuristic

docsSignificanceH(docsFiles, codeFiles, primaryFocus) ==
    LET docWeight == sumSeq([i \in 1..Len(docsFiles) |-> churn(docsFiles[i])])
        codeWeight == sumSeq([i \in 1..Len(codeFiles) |-> churn(codeFiles[i])])
        isArchitecturalChange ==
            primaryFocus.focus \in {"engine-refactor", "new-engine", "multi-engine"}
        docsThreshold == IF isArchitecturalChange THEN 6 ELSE 4
    IN  hasReadme(docsFiles) /\ docWeight >= ceilTenths(codeWeight + docWeight, docsThreshold)

\* variant === 0 ? 0 : Math.min(variant, descriptions.length - 1), counted from 0
selectedIndexH(descriptions, variant) ==
    IF variant = 0 THEN 0 ELSE min(variant, Len(descriptions) - 1)

\* generateHeuristic up to the change type: what it derives from the changes
\* alone, before config.regen and config.style are read
analyseH(changes) ==
    LET parted(l) ==
            [docsFiles |-> SelectSeq(l.files, LAMBDA f : isDocFile(f.path)),
             codeFiles |-> SelectSeq(l.files, LAMBDA f : ~isDocFile(f.path))] @@ l
        based(l) ==
            [baseFiles |-> IF Len(l.codeFiles) > 0 THEN l.codeFiles ELSE l.files,
             baseDiff |-> IF Len(l.codeFiles) > 0
                          THEN buildDiffForFilesH(changes.diff, l.codeFiles)
                          ELSE changes.diff,
             docTopic |-> extractDocsTopicH(buildDiffForFilesH(changes.diff, l.docsFiles))]
            @@ l
        focused(l) == [primaryFocus |-> detectPrimaryFocusH(l.baseFiles, l.baseDiff)] @@ l
        typed(l) ==
            [type |-> detectChangeTypeH(l.baseFiles, l.baseDiff, l.primaryFocus),
             scope |-> detectScopeH(l.files),
             docsSignificant |-> docsSignificanceH(l.docsFiles, l.codeFiles, l.primaryFocus)]
            @@ l
    IN  typed(focused(based(parted([files |-> changes.files]))))

\* generateHeuristic from the descriptions on: the variant picks the description
describeH(analysed, config) ==
    LET described(l) ==
            [descriptions |-> buildDescriptionsH(l.baseFiles, l.type, l.primaryFocus, l.scope,
                                                 categorizeFilesH(l.baseFiles), l.variant)]
            @@ l
        selected(l) ==
            [selectedDesc |-> l.descriptions[selectedIndexH(l.descriptions, l.variant) + 1],
             isMixed |-> Len(l.docsFiles) > 0 /\ Len(l.codeFiles) > 0 /\ l.docsSignificant]
            @@ l
    IN  selected(described([variant |-> config.regen, style |-> config.style] @@ analysed))

\* the locals of generateHeuristic before the candidates are built
heuristicLocalsH(changes, config) == describeH(analyseH(changes), config)

docsRightH(c) ==
    LET docsScope == IF hasReadme(c.docsFiles) THEN "README" ELSE "docs"
    IN  pickVerbH("docs", "docs", c.variant) \o " "
        \o (IF c.docTopic # ""
            THEN (IF docsScope = "README" THEN "README " \o c.docTopic ELSE c.docTopic)
            ELSE docsScope)

convCandidateH(c) ==
    LET codeScope == orElse(detectScopeH(c.codeFiles), c.scope)
        docsScope == IF hasReadme(c.docsFiles) THEN "readme" ELSE ""
        left == c.type \o parens(codeScope) \o ": " \o c.selectedDesc.noun
        docsPhrase == orElse(c.docTopic, IF docsScope = "readme" THEN "README" ELSE "docs")
        right == "docs" \o parens(docsScope) \o ": update " \o docsPhrase
    IN  IF c.isMixed THEN left \o "; " \o right
        ELSE c.type \o parens(c.scope) \o ": " \o c.selectedDesc.noun

plainCandidateH(c) ==
    IF c.isMixed
    THEN capitalizeFirst(pickVerbH(c.type, "code", c.variant)) \o " " \o c.selectedDesc.noun
         \o " and " \o docsRightH(c)
    ELSE capitalizeFirst(c.selectedDesc.verb \o " " \o c.selectedDesc.noun)

gitmojiCandidateH(c) ==
    IF c.isMixed
    THEN getEmojiH(c.type) \o " " \o pickVerbH(c.type, "code", c.variant) \o " "
         \o c.selectedDesc.noun \o "; " \o ":memo: " \o docsRightH(c)
    ELSE getEmojiH(c.type) \o " " \o (IF c.scope # "" THEN c.scope \o ": " ELSE "")
         \o c.selectedDesc.verb \o " " \o c.selectedDesc.noun

styleCandidatesH(c) ==
    (IF c.style \in {"conv", "mix"} THEN <<convCandidateH(c)>> ELSE <<>>)
    \o (IF c.style \in {"plain", "mix"} THEN <<plainCandidateH(c)>> ELSE <<>>)
    \o (IF c.style \in {"gitmoji", "mix"} THEN <<gitmojiCandidateH(c)>> ELSE <<>>)

alternativeH(c, altDesc) ==
    IF c.style = "gitmoji"
    THEN getEmojiH(c.type) \o " " \o (IF c.scope # "" THEN c.scope \o ": " ELSE "")
         \o altDesc.verb \o " " \o altDesc.noun
    ELSE capitalizeFirst(altDesc.verb \o " " \o altDesc.noun)

\* altIndex and usedDescs count from 0 as in the source
RECURSIVE fillAlternativesH(_, _, _, _)
fillAlternativesH(candidates, altIndex, usedDescs, c) ==
    IF Len(candidates) < 3 /\ altIndex < Len(c.descriptions)
    THEN IF altIndex \in usedDescs
         THEN fillAlternativesH(candidates, altIndex + 1, usedDescs, c)
         ELSE LET alt == alternativeH(c, c.descriptions[altIndex + 1])
              IN  fillAlternativesH(IF alt \in range(candidates) THEN candidates
                                    ELSE Append(candidates, alt),
                                    altIndex + 1, usedDescs \cup {altIndex}, c)
    ELSE candidates

RECURSIVE finalFallbackH(_, _)
finalFallbackH(candidates, c) ==
    LET added(alt) ==
            IF Len(candidates) < 3 /\ alt \notin range(candidates)
            THEN finalFallbackH(Append(candidates, alt), c)
            ELSE candidates
    IN  added(generateAlternative(c.files, c.type, c.scope, c.variant, Len(candidates)))

candidatesOfH(c) ==
    LET used == {selectedIndexH(c.descriptions, c.variant)}
    IN  take(finalFallbackH(fillAlternativesH(styleCandidatesH(c), 1, used, c), c), 3)

generateHeuristicH(changes, config) == candidatesOfH(heuristicLocalsH(changes, config))

\* ------------------------------------------------------ staged changes

MaxFiles == 2

MaxRegen == 2

MaxCalls == 5

Styles == {"plain", "conv", "gitmoji", "mix"}

\* the two snapshots of the heuristic engine
Snapshots == {"part_001", "heuristic.ts"}

\* one staged file: its FileChange (the counts as numstat gives them for the
\* hunk) and its section of `git diff --cached`
stagedFile(path, status, summary, body) ==
    LET counted(additions, deletions) ==
            [file |-> [path |-> path, status |-> status, additions |-> additions,
                       deletions |-> deletions, summary |-> summary],
             section |-> "diff --git a/" \o path \o " b/" \o path \o "\n"
                 \o (IF status = "A"
                     THEN "new file mode 100644\nindex 0000000..1a2b3c4\n--- /dev/null\n"
                     ELSE "index 1a2b3c4..5d6e7f8 100644\n--- a/" \o path \o "\n")
                 \o "+++ b/" \o path \o "\n@@ -1,3 +1,4 @@\n" \o body]
        lined(lines) ==
            counted(Len(SelectSeq(lines, LAMBDA l : startsWith(l, "+"))),
                    Len(SelectSeq(lines, LAMBDA l : startsWith(l, "-"))))
    IN  lined(split(body, "\n"))

\* staged files a session can hold, in path order; two entries of one path are
\* two possible hunks of that file
Pool ==
    << stagedFile("README.md", "M", "", " # gac\n+## Usage Notes\n+Run the command below.\n"),
       stagedFile("README.md", "M", "", " intro\n+More words about the tool.\n"),
       stagedFile("docs/guide.md", "A", "", "+Install with npm.\n"),
       stagedFile("package.json", "M", "",
                  "   \"dependencies\": {\n+    \"chalk\": \"^5.0.0\",\n     \"ora\": \"^1.0.0\"\n"),
       stagedFile("package.json", "M", "",
                  "     \"ora\": \"^1.0.0\",\n+    \"chalk\": \"^5.0.0\",\n     \"zod\": \"^3.0.0\"\n"),
       stagedFile("src/averyveryverylongdirectoryname/x.ts", "M", "a",
                  "-const a = 1;\n+const a = 2;\n"),
       stagedFile("src/cli.ts", "M", "",
                  "+  // fix: resolve the null check\n+  if (x == null) throw new Error(\"bad\");\n"),
       stagedFile("src/components/Button.tsx", "A", "Button",
                  "+export const Button = () => {\n+};\n"),
       stagedFile("src/engines/gemini.ts", "A", "generateGemini",
                  "+export async function generateGemini(changes) {\n+  return [];\n+}\n"),
       stagedFile("src/engines/ollama.ts", "M", "url",
                  "-  const url = base;\n+  const url = resolveUrl(base);\n"),
       stagedFile("src/engines/openai.ts", "M", "", "-  timeout: 10,\n+  timeout: 30,\n") >>

\* the StagedChanges of the pool entries picked, in pool order; the diff is the
\* stdout of git, which comes without its final newline
stagedChanges(picked) ==
    LET trimmed(stdout) ==
            IF endsWith(stdout, "\n") THEN SubSeq(stdout, 1, Len(stdout) - 1) ELSE stdout
        staged0(entries) ==
            [files |-> [i \in 1..Len(entries) |-> entries[i].file],
             diff |-> trimmed(join([i \in 1..Len(entries) |-> entries[i].section], ""))]
        chosen(pool) ==
            staged0(SelectSeq([i \in 1..Len(pool) |-> IF i \in picked THEN pool[i] ELSE <<>>],
                              LAMBDA e : e # <<>>))
    IN  chosen(Pool)

GeminiPick == {9, 10, 11}

Picks ==
    LET distinctPaths(pool) ==
            {picked \in SUBSET (1..Len(pool)) :
                /\ Cardinality(picked) <= MaxFiles \/ picked = GeminiPick
                   \/ picked = GeminiPick \cup {1}
                /\ \A i, j \in picked : i # j => pool[i].file.path # pool[j].file.path}
    IN  distinctPaths(Pool)

ChangeSets == {stagedChanges(picked) : picked \in Picks}

\* ------------------------------------------------------------ a session

VARIABLES
    snapshot,   \* which snapshot of the engine is built in
    staged,     \* the staged changes
    style,      \* config.style
    regen,      \* the regen counter of the session
    run,        \* the locals and the candidates of the latest generateHeuristic
    calls,      \* how many times the engine was invoked on these changes
    log,        \* every invocation so far: its regen and the candidates it returned
    probe,      \* the latest call of a single function, with its arguments
    session     \* the interactive session of the cli: its configuration and where it stands

vars == <<snapshot, staged, style, regen, run, calls, log, probe, session>>

NoRun == [candidates |-> <<>>]

NoProbe == [op |-> "none"]

NoSession == [phase |-> "none"]

\* the locals of a run together with the candidates built from them
withCandidates(c) == [candidates |-> candidatesOf(c)] @@ c

withCandidatesH(c) == [candidates |-> candidatesOfH(c)] @@ c

\* generateHeuristic is a function of its arguments alone, so what each snapshot
\* derives from the staged changes of the model is tabulated once, and from it
\* the runs over the styles and variants of the model
Analysed ==
    [in \in Snapshots \X ChangeSets |->
        IF in[1] = "part_001" THEN analyse(in[2]) ELSE analyseH(in[2])] @@ <<>>

heuristicRun(analysed, config) == withCandidates(describe(analysed, config))

heuristicRunH(analysed, config) == withCandidatesH(describeH(analysed, config))

Generated ==
    LET runs(analysed) ==
            [in \in (DOMAIN analysed) \X Styles \X (0..MaxRegen) |->
                IF in[1][1] = "part_001"
                THEN heuristicRun(analysed[in[1]], [style |-> in[2], regen |-> in[3]])
                ELSE heuristicRunH(analysed[in[1]], [style |-> in[2], regen |-> in[3]])]
            @@ <<>>
    IN  runs(Analysed)

\* the engines of the configuration; those of generator.ts that call a service
Engines == {"ollama", "openai", "anthropic", "gemini", "none"}

NetworkEngines == {"ollama", "openai", "anthropic"}

\* defaults.maxLen
DefaultMaxLen == 72

\* what a call of a service comes to: it throws, or it returns the lines it
\* parsed out of the answer (ollama.ts and parseCandidates capitalize each line)
Failure == <<"failure">>

NoReply == <<>>

EngineReplies ==
    { Failure,
      <<capitalizeFirst("add a retry to the request of the engine"),
        capitalizeFirst("fix: handle an empty response."),
        capitalizeFirst("update the src/core.ts file")>> }

Thrown == [candidates |-> <<>>, limited |-> <<>>, thrown |-> TRUE]

isThrown(result) == "thrown" \in DOMAIN result

\* message.replace(/\.+$/, '')
RECURSIVE stripPeriods(_)
stripPeriods(s) ==
    IF s # "" /\ charAt(s, Len(s)) = "." THEN stripPeriods(SubSeq(s, 1, Len(s) - 1)) ELSE s

\* generator.ts, enforceMaxLength; lastSpace is the 0-based index of the source
enforceMaxLength(message, maxLen) ==
    LET cutAtWord(trimmed, lastSpace) ==
            IF lastSpace * 10 > maxLen * 7 THEN SubSeq(trimmed, 1, lastSpace) ELSE trimmed
        lastIndexOfSpace(trimmed) ==
            greatest({k \in 1..Len(trimmed) : charAt(trimmed, k) = " "}) - 1
        cut(msg) ==
            IF Len(msg) <= maxLen THEN msg
            ELSE cutAtWord(SubSeq(msg, 1, maxLen), lastIndexOfSpace(SubSeq(msg, 1, maxLen)))
    IN  cut(stripPeriods(trim(message)))

\* generateCandidates: the engine of the configuration answers (`reply` is the
\* answer of the service when the engine calls one), every other engine name
\* falls to the default of the switch, the heuristic; then each candidate goes
\* through enforceMaxLength.  The record keeps what the engine returned in
\* `candidates` and has what generateCandidates returns in `limited`
generateCandidates(snapshot0, changes, config, reply) ==
    LET limited(result) ==
            [limited |-> [i \in 1..Len(result.candidates) |->
                            enforceMaxLength(result.candidates[i], config.maxLen)]]
            @@ result
    IN  IF config.engine \in NetworkEngines
        THEN IF reply = Failure THEN Thrown ELSE limited([candidates |-> reply])
        ELSE limited(Generated[<<<<snapshot0, changes>>, config.style, config.regen>>])

\* a configuration that carries the number of earlier invocations into the variant
configForCarried(style0, regen0, calls0) ==
    [style |-> style0, regen |-> (regen0 + calls0) % (MaxRegen + 1),
     maxLen |-> DefaultMaxLen, engine |-> "none"]

\* config.regen = regen: the variant is the counter of the session, and nothing
\* of the earlier invocations enters the configuration
configFor(style0, regen0, calls0) ==
    [style |-> style0, regen |-> regen0, maxLen |-> DefaultMaxLen, engine |-> "none"]

Init ==
    /\ snapshot \in Snapshots
    /\ staged \in ChangeSets
    /\ style \in Styles
    /\ regen = 0
    /\ run = NoRun
    /\ calls = 0
    /\ log = {}
    /\ probe = NoProbe
    /\ session = NoSession

generateNew(r) ==
    /\ regen' = r
    /\ run' = generateCandidates(snapshot, staged, configFor(style, r, calls), NoReply)
    /\ calls' = calls + 1
    /\ log' = log \cup {[regen |-> r, candidates |-> run'.candidates]}
    /\ UNCHANGED <<snapshot, staged, style, probe, session>>

\* the first generation of a session
Generate == calls = 0 /\ generateNew(regen)

\* action "regenerate": regen += 1, then generateNew
Regenerate == calls > 0 /\ calls < MaxCalls /\ regen < MaxRegen /\ generateNew(regen + 1)

\* the tool started again on the same staged changes
Rerun == calls > 0 /\ calls < MaxCalls /\ generateNew(0)

Next == Generate \/ Regenerate \/ Rerun

Spec == Init /\ [][Next]_vars

\* ------------------------------------------- single functions, called alone

\* a FileChange as parseFileChanges builds it
fileChange(path, status, additions, deletions) ==
    [path |-> path, status |-> status, additions |-> additions, deletions |-> deletions,
     summary |-> ""]

ProbeFileLists ==
    { <<>>,
      <<fileChange("README.md", "M", 1, 0)>>,
      <<fileChange("notes.txt", "A", 2, 0), fileChange("docs/guide.rst", "M", 1, 1)>>,
      <<fileChange("manual.ADOC", "M", 1, 1)>>,
      <<fileChange("src/cli.ts", "M", 1, 1)>>,
      <<fileChange("src/cli.ts", "M", 1, 0)>>,
      <<fileChange("src/new.ts", "A", 3, 0)>>,
      <<fileChange("assets/logo.svg", "A", 3, 0)>>,
      <<fileChange("src/a.test.ts", "M", 1, 0)>>,
      <<fileChange("web/site.css", "M", 2, 0)>>,
      <<fileChange("yarn.lock", "M", 1, 0)>>,
      <<fileChange("src/x/old.ts", "D", 0, 4), fileChange("src/x/new.ts", "A", 4, 0)>>,
      <<fileChange("README.md", "M", 1, 0), fileChange("src/cli.ts", "M", 1, 1)>> }

ProbeDiffs ==
    { "",
      "+// Fix the bug\n+try {",
      "+// resolve the issue",
      "+it('works', () => {})  // jest test",
      "+// Refactor: simplify the loop",
      "+// run the formatter (lint)",
      "+// bump the version" }

ProbeEntities ==
    { NoEntities,
      [NoEntities EXCEPT !.functions = <<"run">>],
      [NoEntities EXCEPT !.dependencies = <<"chalk">>],
      [NoEntities EXCEPT !.hasErrorHandling = TRUE] }

ProbeFoci ==
    { [focus |-> "generic", detail |-> "", weight |-> 1],
      [focus |-> "engine-refactor", detail |-> "engine architecture", weight |-> 10],
      [focus |-> "core-refactor", detail |-> "core architecture", weight |-> 8],
      [focus |-> "new-engine", detail |-> "Gemini engine", weight |-> 9],
      [focus |-> "multi-engine", detail |-> "engines", weight |-> 7] }

\* a process in which one function is called once, on its own
ProbeInit ==
    /\ snapshot \in Snapshots
    /\ staged = [files |-> <<>>, diff |-> ""]
    /\ style = "mix"
    /\ regen = 0
    /\ run = NoRun
    /\ calls = 0
    /\ log = {}
    /\ probe = NoProbe
    /\ session = NoSession

calledOnce(call) ==
    /\ probe = NoProbe
    /\ probe' = call
    /\ UNCHANGED <<snapshot, staged, style, regen, run, calls, log, session>>

CallDetectChangeType ==
    /\ snapshot = "part_001"
    /\ \E files \in ProbeFileLists, diff \in ProbeDiffs, entities \in ProbeEntities,
          focus \in ProbeFoci :
            calledOnce([op |-> "detectChangeType", files |-> files, diff |-> diff,
                        entities |-> entities, focus |-> focus,
                        result |-> detectChangeType(files, diff, entities, focus)])

CallDetectChangeTypeH ==
    /\ snapshot = "heuristic.ts"
    /\ \E files \in ProbeFileLists, diff \in ProbeDiffs, focus \in ProbeFoci :
            calledOnce([op |-> "detectChangeType", files |-> files, diff |-> diff,
                        entities |-> NoEntities, focus |-> focus,
                        result |-> detectChangeTypeH(files, diff, focus)])

NextType == CallDetectChangeType \/ CallDetectChangeTypeH

SpecType == ProbeInit /\ [][NextType]_vars

\* a documentation extension: md, txt, rst, adoc
docExtension(path) ==
    \E e \in {"md", "txt", "rst", "adoc"} : endsWith(toLowerCase(path), "." \o e)

allDocs(files) == \A i \in 1..Len(files) : docExtension(files[i].path)

\* C3: when every file has a documentation extension detectChangeType answers
\* docs, whatever the diff, the entities and the primary focus are
AllDocsIsDocs ==
    (probe.op = "detectChangeType" /\ allDocs(probe.files)) => probe.result = "docs"

\* documentation files alone, with dependencies extracted, fix words in the diff
\* and an architectural focus
AllDocsIsDocsWitness ==
    /\ probe.op = "detectChangeType"
    /\ Len(probe.files) = 2
    /\ allDocs(probe.files)
    /\ probe.entities.dependencies # <<>>
    /\ probe.focus.focus = "engine-refactor"
    /\ includes(probe.diff, "Fix")
    /\ probe.result = "docs"

ProbePaths ==
    { "src/averyveryverylongdirectoryname/x.ts",
      "src/averyveryverylongdirectoryname/y.ts",
      "src/fifteencharsdir/a.ts",
      "src/sixteencharsdirs/a.ts",
      "lib/util/format.ts",
      "packages\\core\\index.ts",
      "src/cli.ts",
      "src/engines/gemini.ts",
      "src/components/Button.tsx",
      ".github/workflows/ci.yml",
      "docs/guide.md",
      "README.md" }

\* the lists of at most MaxFiles files over the paths, one line added in each
ProbeScopeLists ==
    UNION {[1..n -> {fileChange(path, "M", 1, 0) : path \in ProbePaths}] : n \in 0..MaxFiles}

CallDetectScope ==
    /\ snapshot = "part_001"
    /\ \E files \in ProbeScopeLists :
            calledOnce([op |-> "detectScope", files |-> files, result |-> detectScope(files)])

CallDetectScopeH ==
    /\ snapshot = "heuristic.ts"
    /\ \E files \in ProbeScopeLists :
            calledOnce([op |-> "detectScope", files |-> files, result |-> detectScopeH(files)])

NextScope == CallDetectScope \/ CallDetectScopeH

SpecScope == ProbeInit /\ [][NextScope]_vars

\* C5: for every file list detectScope returns a token of at most 15 characters
ScopeAtMostFifteen == probe.op = "detectScope" => Len(probe.result) <= 15

\* heuristic.ts alone keeps to 15 characters
ScopeAtMostFifteenH ==
    (probe.op = "detectScope" /\ snapshot = "heuristic.ts") => Len(probe.result) <= 15

MaxVariant == 40

ProbeTypes == {"feat", "fix", "docs", "refactor", "chore", "test", "style", "perf", "build"}

\* pickVerb at a variant, and at the variants that follow it, as repeated
\* regeneration asks for them
CallPickVerb ==
    /\ snapshot = "part_001"
    /\ \E type \in ProbeTypes, domain \in {"code", "docs"}, variant \in 0..MaxVariant :
            calledOnce([op |-> "pickVerb", type |-> type, domain |-> domain,
                        variant |-> variant,
                        key |-> IF domain = "docs" THEN "docs"
                                ELSE IF mapHas(VerbPools, type) THEN type ELSE "default",
                        pool |-> poolOf(VerbPools,
                                        IF domain = "docs" THEN "docs"
                                        ELSE IF mapHas(VerbPools, type) THEN type
                                        ELSE "default"),
                        result |-> pickVerb(type, domain, variant),
                        following |-> [k \in 1..4 |-> pickVerb(type, domain, variant + k)]])

CallPickVerbH ==
    /\ snapshot = "heuristic.ts"
    /\ \E type \in ProbeTypes, domain \in {"code", "docs"}, variant \in 0..MaxVariant :
            calledOnce([op |-> "pickVerb", type |-> type, domain |-> domain,
                        variant |-> variant,
                        key |-> poolKeyH(type, domain),
                        pool |-> poolOf(VerbPoolsH, poolKeyH(type, domain)),
                        result |-> pickVerbH(type, domain, variant),
                        following |-> [k \in 1..4 |-> pickVerbH(type, domain, variant + k)]])

NextVerb == CallPickVerb \/ CallPickVerbH

SpecVerb == ProbeInit /\ [][NextVerb]_vars

\* ((variant * 9301 + 49297 + salt * 233) mod 233280) mod poolLength, counted from 1
seededEntry(pool, variant, salt) ==
    pool[(((variant * 9301 + 49297 + salt * 233) % 233280) % Len(pool)) + 1]

\* C6: the verb picked for a pool key is the pool entry at index
\* ((variant * 9301 + 49297 + salt * 233) mod 233280) mod poolLength, the salt
\* being the sum of the character codes of the key
PickVerbIsSeeded ==
    probe.op = "pickVerb" =>
        probe.result = seededEntry(probe.pool, probe.variant, charCodeSum(probe.key))

\* heuristic.ts picks the seeded entry
PickVerbIsSeededH ==
    (probe.op = "pickVerb" /\ snapshot = "heuristic.ts") =>
        probe.result = seededEntry(probe.pool, probe.variant, charCodeSum(probe.key))

\* in both snapshots the variants that follow step through the pool and come
\* back to the verb after poolLength steps
PickVerbCycles ==
    probe.op = "pickVerb" =>
        /\ probe.following[Len(probe.pool)] = probe.result
        /\ \A k \in 1..(Len(probe.pool) - 1) : probe.following[k] # probe.result

\* the descriptions in the order generateHeuristic of heuristic.ts renders them:
\* the selected one, then those from index 1 on that were not selected
renderedOrderH(descriptions, variant) ==
    LET rendered(selected) ==
            <<descriptions[selected + 1]>>
            \o SelectSeq([i \in 1..(Len(descriptions) - 1) |->
                             IF i = selected THEN [verb |-> "", noun |-> ""]
                             ELSE descriptions[i + 1]],
                         LAMBDA d : d.noun # "")
    IN  rendered(selectedIndexH(descriptions, variant))

description(verb, noun) == [verb |-> verb, noun |-> noun]

\* description lists as buildDescriptions returns them
ProbeDescriptions ==
    { <<description("update", "files")>>,
      <<description("add", "Button component"), description("update", "components")>>,
      <<description("add", "Gemini engine"), description("update", "engines"),
        description("modify", "3 files")>>,
      <<description("refactor", "engine architecture"), description("update", "engines"),
        description("improve", "CLI"), description("modify", "4 files")>> }

CallRotateDescriptions ==
    /\ snapshot = "part_001"
    /\ \E descriptions \in ProbeDescriptions, variant \in 0..MaxVariant :
            calledOnce([op |-> "descriptions", list |-> descriptions, variant |-> variant,
                        result |-> rotateDescriptions(descriptions, variant)])

CallRenderedOrderH ==
    /\ snapshot = "heuristic.ts"
    /\ \E descriptions \in ProbeDescriptions, variant \in 0..MaxVariant :
            calledOnce([op |-> "descriptions", list |-> descriptions, variant |-> variant,
                        result |-> renderedOrderH(descriptions, variant)])

NextRotation == CallRotateDescriptions \/ CallRenderedOrderH

SpecRotation == ProbeInit /\ [][NextRotation]_vars

\* ------------------------------------------- detectScope on weighted files

WeighedPaths ==
    {"src/cli.ts", "src/engines/gemini.ts", "src/core.ts", "src/util/format.ts",
     "README.md", "docs/guide.md"}

\* the lists of at most MaxFiles files, each of one or of five changed lines
WeighedLists ==
    UNION {[1..n -> {fileChange(path, "M", additions, 0) :
                        path \in WeighedPaths, additions \in {1, 5}}] : n \in 0..MaxFiles}

CallDetectScopeWeighed ==
    /\ snapshot = "part_001"
    /\ \E files \in WeighedLists :
            calledOnce([op |-> "detectScopeWeighed", files |-> files,
                        counts |-> domainCounts(files), fallback |-> pathScope(files),
                        result |-> detectScope(files)])

CallDetectScopeWeighedH ==
    /\ snapshot = "heuristic.ts"
    /\ \E files \in WeighedLists :
            calledOnce([op |-> "detectScopeWeighed", files |-> files,
                        counts |-> domainCountsH(files), fallback |-> pathScopeH(files),
                        result |-> detectScopeH(files)])

NextScopeWeighed == CallDetectScopeWeighed \/ CallDetectScopeWeighedH

SpecScopeWeighed == ProbeInit /\ [][NextScopeWeighed]_vars

\* --------------------------------------------- detectPrimaryFocus, called alone

FocusPool ==
    << fileChange("src/engines/gemini.ts", "A", 5, 0),
       fileChange("src/engines/claude.ts", "A", 5, 0),
       fileChange("src/engines/shared.ts", "A", 5, 0),
       fileChange("src/engines/ollama.ts", "M", 1, 1),
       fileChange("src/engines/openai.ts", "M", 1, 1),
       fileChange("src/engines/anthropic.ts", "M", 1, 1),
       fileChange("src/cli.ts", "M", 1, 1),
       fileChange("src/config.ts", "M", 1, 1),
       fileChange("src/core.ts", "M", 1, 1),
       fileChange("package.json", "M", 1, 1) >>

\* the files of the pool at the chosen places, in the order of the pool
chosenFiles(pool, places) ==
    LET picked == SelectSeq([i \in 1..Len(pool) |-> i], LAMBDA i : i \in places)
    IN  [k \in 1..Len(picked) |-> pool[picked[k]]]

FocusLists == {chosenFiles(FocusPool, places) : places \in SUBSET (1..Len(FocusPool))}

CallDetectPrimaryFocus ==
    /\ snapshot = "part_001"
    /\ \E files \in FocusLists :
            calledOnce([op |-> "detectPrimaryFocus", files |-> files,
                        scope |-> detectScope(files),
                        categories |-> categorizeFiles(files),
                        result |-> detectPrimaryFocus(files, "")])

CallDetectPrimaryFocusH ==
    /\ snapshot = "heuristic.ts"
    /\ \E files \in FocusLists :
            calledOnce([op |-> "detectPrimaryFocus", files |-> files,
                        scope |-> detectScopeH(files),
                        categories |-> categorizeFilesH(files),
                        result |-> detectPrimaryFocusH(files, "")])

NextFocus == CallDetectPrimaryFocus \/ CallDetectPrimaryFocusH

SpecFocus == ProbeInit /\ [][NextFocus]_vars

\* ------------------------------------------- the package.json scan, called alone

PackageLines ==
    { "   \"dependencies\": {",
      "+    \"chalk\": \"^5.0.0\",",
      "-    \"chalk\": \"^4.0.0\",",
      "   },",
      "+  \"license\": \"MIT\",",
      "   \"scripts\": {",
      "+    \"build\": \"tsc\"," }

MaxPackageLines == 4

\* the hunks of a package.json diff: up to MaxPackageLines lines
PackageHunks == UNION {[1..n -> PackageLines] : n \in 1..MaxPackageLines}

packageDiff(lines) == "diff --git a/package.json b/package.json\n" \o join(lines, "\n")

CallExtractKeyEntities ==
    /\ snapshot = "part_001"
    /\ \E lines \in PackageHunks :
            calledOnce([op |-> "extractKeyEntities", lines |-> lines,
                        result |-> extractKeyEntities(packageDiff(lines),
                                       <<fileChange("package.json", "M", 1, 1)>>)])

NextPackage == CallExtractKeyEntities

\* the scan is that of part_001
PackageInit ==
    /\ ProbeInit
    /\ snapshot = "part_001"

SpecPackage == PackageInit /\ [][NextPackage]_vars

\* ------------------------------------------ generateHeuristic over the variants

\* the variants at which generateHeuristic is called: a full turn of the pools
MaxStart == 11

\* generateHeuristic of part_001 at a variant, at the next one and twelve later
CallGenerateHeuristic ==
    /\ snapshot = "part_001"
    /\ \E changes \in ChangeSets, style0 \in Styles, v \in 0..MaxStart :
        LET candidatesAt(analysed, variant) ==
                heuristicRun(analysed, [style |-> style0, regen |-> variant]).candidates
            called(analysed) ==
                calledOnce([op |-> "generateHeuristic", changes |-> changes,
                            style |-> style0, variant |-> v,
                            result |-> candidatesAt(analysed, v),
                            next |-> candidatesAt(analysed, v + 1),
                            later |-> candidatesAt(analysed, v + 12)])
        IN  called(Analysed[<<"part_001", changes>>])

NextPeriod == CallGenerateHeuristic

\* the variants are those of generateHeuristic of part_001
PeriodInit ==
    /\ ProbeInit
    /\ snapshot = "part_001"

SpecPeriod == PeriodInit /\ [][NextPeriod]_vars

\* ------------------------------------------------ categories, called alone

CategoryPool ==
    << fileChange("src/cli.ts", "M", 1, 1),
       fileChange("src/engines/ollama.ts", "M", 1, 1),
       fileChange("src/new.ts", "A", 3, 0),
       fileChange("README.md", "M", 1, 0),
       fileChange("src/components/Button.tsx", "A", 1, 0),
       fileChange("package.json", "M", 0, 0) >>

\* the lists of one to three files of the pool, in every order
CategoryLists ==
    LET listsOf(pool) ==
            {l \in UNION {[1..n -> 1..Len(pool)] : n \in 1..3} :
                \A i, j \in 1..Len(l) : i # j => l[i] # l[j]}
        filesOf(pool, l) == [i \in 1..Len(l) |-> pool[l[i]]]
        listed(pool) == {filesOf(pool, l) : l \in listsOf(pool)}
    IN  listed(CategoryPool)

\* arr.reverse()
reverse(arr) == [i \in 1..Len(arr) |-> arr[Len(arr) + 1 - i]]

\* the categories in the order buildCategoryNoun ranks them
rankCategories(cats) == mapKeys(sortByWeight(cats))

CallCategorizeFiles ==
    /\ snapshot = "part_001"
    /\ \E files \in CategoryLists :
            calledOnce([op |-> "categorizeFiles", files |-> files,
                        result |-> categorizeFiles(files)])

CallCategorizeFilesH ==
    /\ snapshot = "heuristic.ts"
    /\ \E files \in CategoryLists :
            calledOnce([op |-> "categorizeFiles", files |-> files,
                        result |-> categorizeFilesH(files)])

\* buildCategoryNoun on a list of files, and on the same files in reverse order
CallBuildCategoryNoun ==
    /\ snapshot = "part_001"
    /\ \E files \in CategoryLists :
            calledOnce([op |-> "buildCategoryNoun", files |-> files,
                        ranking |-> rankCategories(categorizeFiles(files)),
                        result |-> buildCategoryNoun(files),
                        reversedRanking |-> rankCategories(categorizeFiles(reverse(files))),
                        reversedResult |-> buildCategoryNoun(reverse(files))])

CallBuildCategoryNounH ==
    /\ snapshot = "heuristic.ts"
    /\ \E files \in CategoryLists :
            calledOnce([op |-> "buildCategoryNoun", files |-> files,
                        ranking |-> rankCategories(categorizeFilesH(files)),
                        result |-> buildCategoryNounH(files),
                        reversedRanking |-> rankCategories(categorizeFilesH(reverse(files))),
                        reversedResult |-> buildCategoryNounH(reverse(files))])

NextCategories ==
    CallCategorizeFiles \/ CallCategorizeFilesH \/ CallBuildCategoryNoun
    \/ CallBuildCategoryNounH

SpecCategories == ProbeInit /\ [][NextCategories]_vars

\* ------------------------------------------------ the interactive session

\* the two snapshots of the cli
Clis == {"cli.ts", "part_005"}

\* config.maxLen: the default, and a limit below the length of most candidates
MaxLens == {DefaultMaxLen, 20}

\* the emoji of the gitmoji candidates are written as shortcodes here, whose
\* length is not the emoji's, so the sessions are those of the styles without
SessionStyles == {"conv", "plain"}

SessionPicks == {{1}, {4}, {5}, {6}, {3, 7}}

\* what the prefix prompt resolves to: the text typed, or the cancel symbol
PrefixInputs ==
    { [cancel |-> TRUE, text |-> ""],
      [cancel |-> FALSE, text |-> ""],
      [cancel |-> FALSE, text |-> " JIRA-1 "] }

\* the session once the staged changes were found, before generateNew
SessionInit ==
    /\ snapshot \in Snapshots
    /\ staged \in {stagedChanges(picked) : picked \in SessionPicks}
    /\ style \in SessionStyles
    /\ regen = 0
    /\ run = NoRun
    /\ calls = 0
    /\ log = {}
    /\ probe = NoProbe
    /\ session \in
         [cli : Clis, chosen : Engines, engine : Engines, dryRun : BOOLEAN, maxLen : MaxLens,
          phase : {"start"}, offered : {<<>>}, prefix : {""}, message : {""},
          thrown : {FALSE}, heuristic : {FALSE}, selected : {FALSE}, answer : {"none"},
          commits : {0}, committed : {""}, handed : {<<>>}]
    /\ session.chosen = session.engine

\* generateNew of the cli: generateCandidates under the engine of the
\* configuration; when it throws and the engine is ollama, the engine becomes
\* "none" and generateCandidates runs again; when it throws under another
\* engine, the error goes to the handler around the command, which exits with 1.
\* `handed` keeps the config.regen of every call of generateCandidates
generateNewIn(s, snapshot0, changes, style0, r, reply) ==
    LET config == [style |-> style0, regen |-> r, maxLen |-> s.maxLen, engine |-> s.engine]
        retried == [config EXCEPT !.engine = "none", !.regen = r]
        fallback(result) ==
            [s EXCEPT !.thrown = TRUE, !.engine = "none", !.heuristic = TRUE,
                      !.offered = result.limited, !.phase = "select",
                      !.handed = @ \o <<config.regen, retried.regen>>]
        answered(result) ==
            IF ~isThrown(result)
            THEN [s EXCEPT !.offered = result.limited, !.phase = "select",
                           !.heuristic = @ \/ s.engine \notin NetworkEngines,
                           !.handed = Append(@, config.regen)]
            ELSE IF s.engine = "ollama"
            THEN fallback(generateCandidates(snapshot0, changes, retried, NoReply))
            ELSE [s EXCEPT !.thrown = TRUE, !.phase = "failed",
                           !.handed = Append(@, config.regen)]
    IN  answered(generateCandidates(snapshot0, changes, config, reply))

\* the engine is asked, and the counter of the loop is left where it was
askedStale(r) ==
    \E reply \in EngineReplies :
        /\ session' = generateNewIn(session, snapshot, staged, style, r, reply)
        /\ UNCHANGED <<snapshot, staged, style, regen, run, calls, log, probe>>

\* the engine is asked; `reply` matters only under an engine that calls a service
asked(r) ==
    \E reply \in EngineReplies :
        /\ session' = generateNewIn(session, snapshot, staged, style, r, reply)
        /\ regen' = r
        /\ UNCHANGED <<snapshot, staged, style, run, calls, log, probe>>

\* await generateNew() before the loop
SessionGenerate == session.phase = "start" /\ asked(regen)

\* "quit", q, Ctrl+C or a cancelled selection: process.exit(0)
ChooseQuit ==
    /\ session.phase = "select"
    /\ session' = [session EXCEPT !.phase = "exited"]
    /\ UNCHANGED <<snapshot, staged, style, regen, run, calls, log, probe>>

\* "regenerate": regen += 1; await generateNew(); continue
ChooseRegenerate ==
    /\ session.phase = "select"
    /\ regen < MaxRegen
    /\ asked(regen + 1)

\* "prefix": the prompt, and what was typed trimmed and ended with ": "
ChoosePrefix ==
    /\ session.phase = "select"
    /\ \E typed \in PrefixInputs :
        LET entered(prefix) ==
                IF prefix # "" /\ ~endsWith(prefix, " ") /\ ~endsWith(prefix, ":")
                THEN prefix \o ": " ELSE prefix
        IN  session' = IF typed.cancel THEN session
                       ELSE [session EXCEPT !.prefix = entered(trim(typed.text))]
    /\ UNCHANGED <<snapshot, staged, style, regen, run, calls, log, probe>>

\* commitWithMessage(message), and the loop ends
commitWithMessage(s, message) ==
    [s EXCEPT !.commits = @ + 1, !.committed = message, !.phase = "done"]

\* one of the candidates is chosen.  cli.ts offers 1, 2 and 3 whatever the
\* number of candidates and goes on to the dry-run exit or to the confirmation;
\* part_005 offers the candidates there are and opens the edit prompt
ChooseCandidate ==
    /\ session.phase = "select"
    /\ \E i \in 1..3 :
        /\ session.cli = "part_005" => i <= Len(session.offered)
        /\ LET picked(message) ==
                    IF session.cli = "cli.ts" /\ session.dryRun
                    THEN [session EXCEPT !.selected = TRUE, !.message = message,
                                         !.phase = "exited"]
                    ELSE [session EXCEPT !.selected = TRUE, !.message = message,
                                         !.phase = "confirm"]
           IN  session' = picked(session.prefix
                                 \o (IF i <= Len(session.offered) THEN session.offered[i]
                                     ELSE "undefined"))
    /\ UNCHANGED <<snapshot, staged, style, regen, run, calls, log, probe>>

\* a prompt that commits whatever the answer is
answeredDeaf(s, answer) ==
    IF s.cli = "part_005" /\ s.dryRun
    THEN [s EXCEPT !.answer = answer, !.message = trim(@), !.phase = "exited"]
    ELSE commitWithMessage([s EXCEPT !.answer = answer],
                           IF s.cli = "part_005" THEN trim(s.message) ELSE s.message)

\* the answer to p.confirm of cli.ts, or to the edit prompt of part_005 (Enter
\* takes the text as it stands, trimmed; then the dry-run exit or the commit);
\* anything but a yes goes back to the selection
answered(s, answer) ==
    IF answer # "yes"
    THEN [s EXCEPT !.answer = answer, !.phase = "select"]
    ELSE IF s.cli = "part_005" /\ s.dryRun
    THEN [s EXCEPT !.answer = answer, !.message = trim(@), !.phase = "exited"]
    ELSE commitWithMessage([s EXCEPT !.answer = answer],
                           IF s.cli = "part_005" THEN trim(s.message) ELSE s.message)

Answer ==
    /\ session.phase = "confirm"
    /\ \E answer \in {"yes", "no", "cancel"} :
        /\ session.cli = "part_005" => answer # "no"
        /\ session' = answered(session, answer)
    /\ UNCHANGED <<snapshot, staged, style, regen, run, calls, log, probe>>

NextSession ==
    SessionGenerate \/ ChooseQuit \/ ChooseRegenerate \/ ChoosePrefix \/ ChooseCandidate
    \/ Answer

SpecSession == SessionInit /\ [][NextSession]_vars

\* ------------------------------------------------- release and changelog

\* A version is its triple <<major, minor, patch>>, a tag the version it names;
\* a commit is the type of its subject and whether it announces a breaking
\* change; the changelog file is the list of its version sections, newest
\* first, each the label of its heading and the commits under it.

NoVersion == <<>>

NoFile == [exists |-> FALSE, content |-> <<>>]

file(content) == [exists |-> TRUE, content |-> content]

BaseTag == <<1, 2, 3>>

commitEntry(type, breaking) == [type |-> type, breaking |-> breaking]

\* git log --no-merges <range>: the commits since the base
CommitLists ==
    { <<>>,
      <<commitEntry("docs", FALSE)>>,
      <<commitEntry("fix", FALSE)>>,
      <<commitEntry("fix", FALSE), commitEntry("feat", FALSE)>>,
      <<commitEntry("feat", FALSE), commitEntry("chore", TRUE)>> }

\* the repository: its semver tags, the version in package.json (NoFile when
\* there is no package.json), the changelog file and the commits since the base
Repos ==
    [tags : {{}, {BaseTag}, {BaseTag, <<1, 2, 4>>}},
     package : {NoFile, file(<<0, 9, 0>>)},
     changelog : {NoFile, file(<<>>), file(<<[label |-> <<1, 2, 4>>, commits |-> <<>>]>>)},
     commits : CommitLists]

Bumps == {"major", "minor", "patch", "none"}

detectBump(commits) ==
    LET hasBreaking(c) == c.breaking
        any(test(_)) == \E i \in 1..Len(commits) : test(commits[i])
        isMinor(c) == ~c.breaking /\ c.type = "feat"
        isPatch(c) ==
            ~c.breaking /\ c.type # "feat" /\ c.type \in {"fix", "perf", "refactor", "revert"}
    IN  IF any(hasBreaking) THEN "major"
        ELSE IF any(isMinor) THEN "minor"
        ELSE IF any(isPatch) THEN "patch"
        ELSE IF Len(commits) > 0 THEN "patch" ELSE "none"

computeNext(base, bump) ==
    CASE bump = "major" -> <<base[1] + 1, 0, 0>>
      [] bump = "minor" -> <<base[1], base[2] + 1, 0>>
      [] bump = "patch" -> <<base[1], base[2], base[3] + 1>>
      [] OTHER -> base

compareSemverTags(a, b) ==
    IF a[1] # b[1] THEN a[1] - b[1]
    ELSE IF a[2] # b[2] THEN a[2] - b[2] ELSE a[3] - b[3]

\* the last tag of the sorted list, null (NoVersion) when there is no tag
getLastSemverTag(repo) ==
    IF repo.tags = {} THEN NoVersion
    ELSE CHOOSE t \in repo.tags : \A u \in repo.tags : compareSemverTags(u, t) <= 0

getBaseVersion(repo, lastTag) ==
    IF lastTag # NoVersion THEN lastTag
    ELSE IF repo.package.exists THEN repo.package.content ELSE <<0, 0, 0>>

\* replace the section of this version, else insert the section on top
mergeIntoExisting(existing, newSection) ==
    IF \E i \in 1..Len(existing) : existing[i].label = newSection.label
    THEN [i \in 1..Len(existing) |->
            IF existing[i].label = newSection.label THEN newSection ELSE existing[i]]
    ELSE <<newSection>> \o existing

\* upsertChangelog: the result and the repository it leaves; the preview is the
\* new section in a dry run (a line of text when there are no commits)
upsertChangelog(repo, opts) ==
    LET newSection == [label |-> opts.versionLabel, commits |-> repo.commits]
    IN  IF Len(repo.commits) = 0
        THEN [written |-> FALSE, preview |-> <<>>, repo |-> repo]
        ELSE IF opts.dryRun
        THEN [written |-> FALSE, preview |-> <<newSection>>, repo |-> repo]
        ELSE [written |-> TRUE, preview |-> <<>>,
              repo |-> [repo EXCEPT !.changelog =
                            IF @.exists THEN file(mergeIntoExisting(@.content, newSection))
                            ELSE file(<<newSection>>)]]

\* if (!existsSync(path)) return; pkg.version = newVersion
updatePackageJson(repo, newVersion) ==
    IF ~repo.package.exists THEN repo ELSE [repo EXCEPT !.package = file(newVersion)]

\* an existing tag is left alone
createTag(repo, tag) == [repo EXCEPT !.tags = @ \cup {tag}]

\* runRelease: the ReleaseResult and the repository it leaves
runRelease(repo, opts) ==
    LET baseRef == IF opts.sinceRef = "undefined" THEN getLastSemverTag(repo)
                   ELSE IF opts.sinceRef = "null" THEN NoVersion ELSE BaseTag
        bump == IF opts.bumpOverride # "undefined" THEN opts.bumpOverride
                ELSE detectBump(repo.commits)
        nextVersion ==
            IF opts.releaseAs # NoVersion THEN opts.releaseAs
            ELSE computeNext(getBaseVersion(repo, baseRef), bump)
        cl == upsertChangelog(repo, [versionLabel |-> nextVersion, dryRun |-> opts.dryRun])
        packaged == IF opts.updatePkg /\ ~opts.dryRun
                    THEN updatePackageJson(cl.repo, nextVersion) ELSE cl.repo
        tagged == IF ~opts.dryRun THEN createTag(packaged, nextVersion) ELSE packaged
    IN  [baseRef |-> baseRef, bump |-> bump, nextVersion |-> nextVersion,
         written |-> cl.written, preview |-> cl.preview,
         tagCreated |-> ~opts.dryRun, packageUpdated |-> opts.updatePkg,
         repo |-> tagged]

ReleaseOptions ==
    [updatePkg : BOOLEAN, dryRun : BOOLEAN, bumpOverride : {"undefined", "minor"},
     releaseAs : {NoVersion, <<2, 0, 0>>}, sinceRef : {"undefined", "null", "v1.2.3"}]

\* gac --release
CallRunRelease ==
    /\ probe = NoProbe
    /\ \E repo \in Repos, opts \in ReleaseOptions :
        calledOnce([op |-> "runRelease", repo |-> repo, opts |-> opts,
                    result |-> runRelease(repo, opts)])

\* gac --changelog
CallUpsertChangelog ==
    /\ probe = NoProbe
    /\ \E repo \in Repos, dryRun \in BOOLEAN, versionLabel \in {<<1, 2, 4>>, <<1, 3, 0>>} :
        calledOnce([op |-> "upsertChangelog", repo |-> repo,
                    opts |-> [versionLabel |-> versionLabel, dryRun |-> dryRun],
                    result |-> upsertChangelog(repo,
                                   [versionLabel |-> versionLabel, dryRun |-> dryRun])])

NextRelease == CallRunRelease \/ CallUpsertChangelog

SpecRelease == ProbeInit /\ [][NextRelease]_vars

\* ------------------------------------------------- the candidate list

noRepeat(arr) == \A i, j \in 1..Len(arr) : i # j => arr[i] # arr[j]

\* C2: for every staged change set, style and variant the candidate list has
\* one to three entries and no string twice
OneToThreeDistinct ==
    calls > 0 => Len(run.candidates) \in 1..3 /\ noRepeat(run.candidates)

\* a list that is shorter than three because repeated fill-ups were dropped
OneToThreeDistinctWitness ==
    calls > 0 /\ Len(run.candidates) = 2 /\ Len(uniqueSeq(run.candidates)) = 2

ConvTypes == {"feat", "fix", "refactor", "docs", "test", "style", "chore"}

\* type: noun or type(scope): noun, the type one of the fixed vocabulary
isConventional(s) ==
    \E t \in ConvTypes :
        \/ startsWith(s, t \o ": ") /\ Len(s) > Len(t) + 2
        \/ startsWith(s, t \o "(") /\ indexFrom(s, "): ", Len(t) + 2) > Len(t) + 2

\* C4: under style conv, when the message is not compound, every candidate
\* returned is type[(scope)]: noun, the fill-ups included
ConvOptionsAllConventional ==
    (calls > 0 /\ style = "conv" /\ ~run.isMixed) =>
        \A i \in 1..Len(run.candidates) : isConventional(run.candidates[i])

\* ---------------------------------------------------------- scenarios

\* added src/engines/gemini.ts, modified src/engines/ollama.ts and openai.ts
isGeminiChange ==
    {<<staged.files[i].path, staged.files[i].status>> : i \in 1..Len(staged.files)}
        = {<<"src/engines/gemini.ts", "A">>, <<"src/engines/ollama.ts", "M">>,
           <<"src/engines/openai.ts", "M">>}

\* C7 as stated: the Gemini change set has focus new-engine with detail
\* "Gemini engine" and type feat, and its conv candidate begins with
\* "feat(engine): " and contains "Gemini"
GeminiIsNewEngine ==
    (calls > 0 /\ isGeminiChange) =>
        /\ run.primaryFocus.focus = "new-engine"
        /\ run.primaryFocus.detail = "Gemini engine"
        /\ run.type = "feat"
        /\ style = "conv" =>
                /\ startsWith(run.candidates[1], "feat(engine): ")
                /\ includes(run.candidates[1], "Gemini")

\* C7: an added engine next to two modified ones is an engine-refactor: the
\* focus is engine-refactor with a detail that begins "engine architecture", the
\* type is refactor and the conv candidate begins with "refactor(engine): "
GeminiIsEngineRefactor ==
    (calls > 0 /\ isGeminiChange) =>
        /\ run.primaryFocus.focus = "engine-refactor"
        /\ startsWith(run.primaryFocus.detail, "engine architecture")
        /\ run.type = "refactor"
        /\ style = "conv" => startsWith(run.candidates[1], "refactor(engine): ")

GeminiIsEngineRefactorWitness ==
    /\ calls > 0
    /\ isGeminiChange
    /\ style = "conv"
    /\ run.type = "refactor"
    /\ startsWith(run.candidates[1], "refactor(engine): ")

\* package.json alone, modified, with one line added: the dependency "chalk"
isOneDependencyChange ==
    /\ Len(staged.files) = 1
    /\ staged.files[1].path = "package.json"
    /\ staged.files[1].status = "M"
    /\ staged.files[1].additions = 1
    /\ includes(staged.diff, "\n+    \"chalk\": ")

\* C8: when package.json is modified and one dependency line is added inside a
\* dependencies block, one dependency is extracted, the type is chore and the
\* primary description (variant 0) has verb "update" and a noun that names the
\* dependency
OneDependencyIsChore ==
    (calls > 0 /\ snapshot = "part_001" /\ regen = 0 /\ isOneDependencyChange) =>
        /\ Len(run.entities.dependencies) = 1
        /\ run.type = "chore"
        /\ run.selectedDesc.verb = "update"
        /\ includes(run.selectedDesc.noun, "chalk")

\* the same when the hunk shows the line that opens the dependencies block
OneDependencyBelowHeaderIsChore ==
    (/\ calls > 0
     /\ snapshot = "part_001"
     /\ regen = 0
     /\ isOneDependencyChange
     /\ includes(staged.diff, "\"dependencies\": {")) =>
        /\ run.entities.dependencies = <<"chalk">>
        /\ run.type = "chore"
        /\ run.selectedDesc.verb = "update"
        /\ includes(run.selectedDesc.noun, "chalk")

\* README.md alone, modified
isReadmeChange ==
    /\ Len(staged.files) = 1
    /\ staged.files[1].path = "README.md"
    /\ staged.files[1].status = "M"

DocsVerbsCapitalized == {"Clarify", "Update", "Improve", "Refine"}

isEmptyChange == staged.files = <<>> /\ staged.diff = ""

\* C10 as stated: on an empty file list with an empty diff the result is a
\* single literal candidate
EmptyChangeSingleLiteral ==
    (calls > 0 /\ isEmptyChange) => Len(run.candidates) = 1

\* C10: on an empty file list with an empty diff generateHeuristic returns
\* candidates, with an empty scope and the generic focus; part_001 has empty
\* entity sets and the one description of noun "project", typed docs, and returns
\* its rendering in the style followed by the literal "Update project files", or
\* its three renderings and no literal under style mix
EmptyChangeDefaults ==
    (calls > 0 /\ isEmptyChange) =>
        /\ Len(run.candidates) > 0
        /\ run.scope = ""
        /\ run.primaryFocus.focus = "generic"
        /\ snapshot = "part_001" =>
                /\ run.entities = NoEntities
                /\ run.type = "docs"
                /\ Len(run.descriptions) = 1
                /\ run.descriptions[1].noun = "project"
                /\ IF style = "mix"
                   THEN /\ Len(run.candidates) = 3
                        /\ \A i \in 1..3 : endsWith(run.candidates[i], "project")
                   ELSE /\ Len(run.candidates) = 2
                        /\ endsWith(run.candidates[1], "project")
                        /\ run.candidates[2] = "Update project files"

EmptyChangeDefaultsWitness ==
    /\ calls > 0
    /\ isEmptyChange
    /\ snapshot = "part_001"
    /\ style = "gitmoji"
    /\ run.candidates = <<":memo: project", "Update project files">>

\* -------------------------------------------------- engines and the session

\* C11: whenever the engine that calls a service throws while generating, the
\* session goes on with the heuristic engine and has candidates to offer, and
\* the heuristic engine runs only when the engine chosen is "none" or after
\* such a failure
FailureFallsBack ==
    /\ session.thrown =>
          session.phase # "failed" /\ session.heuristic /\ Len(session.offered) > 0
    /\ session.heuristic => session.chosen = "none" \/ session.thrown

isTidy(candidate) ==
    /\ candidate # ""
    /\ candidate = trim(candidate)
    /\ ~endsWith(candidate, ".")
    /\ isUpper(charAt(candidate, 1))

\* C12: every candidate that generateCandidates returns is trimmed, has no
\* period at its end and starts with a capital letter, shortened or not
CandidatesTidy == \A i \in 1..Len(session.offered) : isTidy(session.offered[i])

\* C13: commitWithMessage is called at most once, only upon a yes to the prompt
\* that follows the choice of a candidate, and never in a dry run, after the
\* exit of a quit or cancel, or while the last answer is a refusal
CommitOnlyConfirmed ==
    /\ session.commits <= 1
    /\ session.commits = 1 =>
          /\ session.selected
          /\ session.answer = "yes"
          /\ ~session.dryRun
          /\ session.phase = "done"
          /\ session.committed = trim(session.message) \/ session.cli = "cli.ts"
          /\ session.committed = session.message \/ session.cli = "part_005"
    /\ session.phase = "exited" => session.commits = 0
    /\ session.answer \in {"no", "cancel"} => session.commits = 0

CommitOnlyConfirmedWitness ==
    /\ session.commits = 1
    /\ session.prefix = "JIRA-1: "
    /\ session.thrown
    /\ regen = MaxRegen

\* C14: in a dry run upsertChangelog leaves the changelog file as it was,
\* runRelease leaves package.json and the tags as they were, and the flags
\* written, tagCreated and packageUpdated are all false
DryRunWritesNothing ==
    probe.op \in {"runRelease", "upsertChangelog"} /\ probe.opts.dryRun =>
        /\ probe.result.repo = probe.repo
        /\ ~probe.result.written
        /\ probe.op = "runRelease" =>
              ~probe.result.tagCreated /\ ~probe.result.packageUpdated

\* ------------------------------------------------------ style and rotation

Emojis ==
    {getEmojiH(t) : t \in ConvTypes \cup {"perf", "build", "ci", "revert", "other"}}

startsWithEmoji(s) == \E e \in Emojis : startsWith(s, e \o " ")

\* no type prefix and no emoji in front
isPlainSubject(s) == s # "" /\ ~isConventional(s) /\ ~startsWithEmoji(s)

\* C15: under style mix generateHeuristic returns exactly three candidates, the
\* first in the conventional form, the second plain, the third with an emoji
\* in front
MixGivesThreeFormats ==
    (calls > 0 /\ style = "mix") =>
        /\ Len(run.candidates) = 3
        /\ isConventional(run.candidates[1])
        /\ isPlainSubject(run.candidates[2])
        /\ startsWithEmoji(run.candidates[3])

MixGivesThreeFormatsWitness ==
    /\ calls > 0
    /\ style = "mix"
    /\ regen = MaxRegen
    /\ run.isMixed
    /\ Len(run.candidates) = 3

\* C16: the description list that generateHeuristic of part_001 renders the
\* candidates from (buildDescriptions, then "update files" for an empty list,
\* then the rotation) has at least one entry, and no two of its nouns are equal
\* once in lower case
DescriptionsDistinctNouns ==
    (calls > 0 /\ snapshot = "part_001") =>
        /\ Len(run.descriptions) >= 1
        /\ \A i, j \in 1..Len(run.descriptions) :
              i # j => toLowerCase(run.descriptions[i].noun)
                        # toLowerCase(run.descriptions[j].noun)

\* a list of three descriptions of which the second was rotated to the front
DescriptionsDistinctNounsWitness ==
    /\ calls > 0
    /\ snapshot = "part_001"
    /\ Len(run.descriptions) >= 3
    /\ regen = 1

\* ------------------------------------------------------------ the change type

parentOf(path) == IF includes(path, "/") THEN join(dropLast(split(path, "/")), "/") ELSE ""

\* the rules of the change type in the order they are listed, first match wins
ruleOrder(files, diff, entities, focus) ==
    LET some(test(_)) == \E i \in 1..Len(files) : test(files[i])
        lower == toLowerCase(diff)
        isDoc(f) == isDocFile(f.path)
        movedPair ==
            \E i, j \in 1..Len(files) :
                /\ files[i].status = "A" /\ files[j].status = "D"
                /\ parentOf(files[i].path) = parentOf(files[j].path)
        addedCode(f) == f.status = "A" /\ ~isDocFile(f.path)
        newEntities ==
            Len(entities.functions) > 0 \/ Len(entities.classes) > 0
                \/ Len(entities.components) > 0
        testPath(f) == isTestPath(f.path)
        stylePath(f) == isStylePath(f.path)
        lockfile(f) == includesAny(f.path, {"package-lock", "yarn.lock"})
    IN  IF \A i \in 1..Len(files) : isDoc(files[i]) THEN "docs"
        ELSE IF focus.focus \in {"engine-refactor", "core-refactor"} THEN "refactor"
        ELSE IF focus.focus \in {"new-engine", "multi-engine"} THEN "feat"
        ELSE IF Len(entities.dependencies) > 0 THEN "chore"
        ELSE IF movedPair THEN "refactor"
        ELSE IF some(addedCode) \/ newEntities THEN "feat"
        ELSE IF matchesAnyWord(lower, {"fix", "bug", "issue", "patch", "resolve", "resolves",
                                       "resolved"}) THEN "fix"
        ELSE IF some(testPath)
                \/ matchesAnyWord(lower, {"test", "spec", "jest", "mocha", "pytest"})
        THEN "test"
        ELSE IF matchesAnyWord(lower, {"refactor", "restructure", "reorganize", "cleanup",
                                       "simplify"}) THEN "refactor"
        ELSE IF some(stylePath)
                \/ matchesAnyWord(lower, {"style", "format", "prettier", "eslint", "lint"})
        THEN "style"
        ELSE IF some(lockfile) THEN "chore"
        ELSE IF files[1].status = "A" THEN "feat" ELSE "chore"

\* C17: detectChangeType answers with the first rule that matches, in the order
\* docs files, architectural-refactor focus, new-engine or multi-engine focus,
\* dependency entities, added/deleted pair in one directory, added code or new
\* entities, fix keywords, tests, refactor keywords, style, lockfile, and
\* otherwise chore (feat when the first file is added)
FirstMatchInOrder ==
    probe.op = "detectChangeType" =>
        probe.result = ruleOrder(probe.files, probe.diff, probe.entities, probe.focus)

\* ------------------------------------------------------------ the rotation

\* L[v mod n], L[(v+1) mod n], ..., L[(v+n-1) mod n], counted from 0
cyclicFrom(list, variant) ==
    [i \in 1..Len(list) |-> list[((variant + i - 1) % Len(list)) + 1]]

\* C18: the primary description of a list L of n entries at variant v is
\* L[v mod n], the rendered order is L rotated to start there, and the rendered
\* list is a permutation of L
RotationIsCyclic ==
    probe.op = "descriptions" =>
        /\ probe.result[1] = probe.list[(probe.variant % Len(probe.list)) + 1]
        /\ probe.result = cyclicFrom(probe.list, probe.variant)
        /\ Len(probe.result) = Len(probe.list)
        /\ range(probe.result) = range(probe.list)

\* ------------------------------------------------------- docs significance

weightOf(files) == sumSeq([i \in 1..Len(files) |-> max(1, files[i].additions + files[i].deletions)])

\* docWeight >= threshold * (docWeight + codeWeight), the threshold in tenths
hasShare(docsFiles, codeFiles, tenths) ==
    10 * weightOf(docsFiles) >= tenths * (weightOf(docsFiles) + weightOf(codeFiles))

\* C19: docs are significant exactly when there is no code file, or the weight
\* of the docs files is at least the threshold share of the whole weight, the
\* threshold 0.6 under an architectural focus and 0.4 otherwise
DocsSignificantByShare ==
    calls > 0 =>
        (run.docsSignificant <=>
            \/ Len(run.codeFiles) = 0
            \/ hasShare(run.docsFiles, run.codeFiles,
                        IF run.primaryFocus.focus \in ArchitecturalFoci THEN 6 ELSE 4))

\* ------------------------------------------------------- compound messages

\* the number of candidates rendered in the style before the fill-ups
styleRendered == IF style = "mix" THEN 3 ELSE 1

\* two halves: joined by "; " in the conventional and emoji forms; in the plain
\* form the noun of the primary description, " and ", and the docs half
isCompound(candidate) ==
    \/ includes(candidate, "; ")
    \/ \E k \in 1..Len(candidate) :
            /\ startsWithAt(candidate, k, run.selectedDesc.noun \o " and ")
            /\ includesAny(slice(candidate, k),
                           {"README", "docs", orElse(run.docTopic, "docs")})

\* C20: the candidates rendered in the style are compound exactly when the docs
\* are significant and there is a code file; otherwise they have one half,
\* which in generateHeuristic of part_001 has the type docs and the docs noun
\* when the docs alone are significant
CompoundIffDocsAndCode ==
    calls > 0 =>
        /\ run.isMixed <=> (run.docsSignificant /\ Len(run.codeFiles) > 0)
        /\ \A i \in 1..styleRendered : isCompound(run.candidates[i]) <=> run.isMixed
        /\ (snapshot = "part_001" /\ run.docsSignificant /\ ~run.isMixed) =>
              \A i \in 1..styleRendered :
                /\ endsWith(run.candidates[i], orElse(run.docTopic, "documentation"))
                /\ isConventional(run.candidates[i]) => startsWith(run.candidates[i], "docs")
                /\ startsWithEmoji(run.candidates[i]) =>
                      startsWith(run.candidates[i], getEmoji("docs"))

\* the three compound renderings of a run of part_001 over code and a README
CompoundIffDocsAndCodeWitness ==
    /\ calls > 0
    /\ snapshot = "part_001"
    /\ style = "mix"
    /\ run.isMixed
    /\ run.type # "docs"
    /\ run.docTopic # ""
    /\ \A i \in 1..3 : isCompound(run.candidates[i])

\* ------------------------------------------------------------- categories

\* max(1, additions + deletions), twice that for an added file
doubledWeight(f) ==
    (IF f.status = "A" THEN 2 ELSE 1) * max(1, f.additions + f.deletions)

\* C21: categorizeFiles puts every file into one category with its weight
\* max(1, additions + deletions), doubled for an added file: the keys of the
\* map are distinct, the map of a non-empty list is non-empty, and its weights
\* add up to the weights of the files
CategoriesCarryWeights ==
    probe.op = "categorizeFiles" =>
        /\ noRepeat(mapKeys(probe.result))
        /\ Len(probe.files) > 0 => Len(probe.result) > 0
        /\ sumSeq([i \in 1..Len(probe.result) |-> probe.result[i][2]])
              = sumSeq([i \in 1..Len(probe.files) |-> doubledWeight(probe.files[i])])

\* C22: categories of equal weight are ranked by a fixed order of their names,
\* so the ranking and the noun built from it are those of the same files in
\* another order
RankingIgnoresFileOrder ==
    probe.op = "buildCategoryNoun" =>
        /\ probe.ranking = probe.reversedRanking
        /\ probe.result = probe.reversedResult

\* ------------------------------------------------------ the scope's weight

\* the churn of the files that are not documentation
codeChurn(files) ==
    sumSeq([i \in 1..Len(files) |->
               IF docExtension(files[i].path) THEN 0 ELSE max(1, files[i].additions + files[i].deletions)])

\* the significance bar: a weight of 2 or more, or half of the code-only churn
MinScopeWeight == 2

clearsBar(weight, files) ==
    weight > 0 /\ (weight >= MinScopeWeight \/ 2 * weight >= codeChurn(files))

\* the greatest weight among the domains
topWeight(counts) == greatest({counts[i][2] : i \in 1..Len(counts)})

\* whether detectScope answered with a domain, and not with a directory of the paths
answeredDomain(p) ==
    /\ p.result # p.fallback
    /\ \E i \in 1..Len(p.counts) : p.counts[i][1] = p.result

\* C23: detectScope answers with a domain only when the domain has the greatest
\* weight and clears the significance bar; docs is no answer for files with
\* code among them; when no domain clears the bar the answer is the fallback
\* taken from the paths
ScopeClearsBar ==
    (probe.op = "detectScopeWeighed" /\ Len(probe.files) > 0) =>
        /\ answeredDomain(probe) =>
                /\ mapGet(probe.counts, probe.result) = topWeight(probe.counts)
                /\ clearsBar(mapGet(probe.counts, probe.result), probe.files)
                /\ codeChurn(probe.files) > 0 => probe.result # "docs"
        /\ ~clearsBar(topWeight(probe.counts), probe.files) => probe.result = probe.fallback

\* heuristic.ts alone keeps to the significance bar
ScopeClearsBarH == snapshot = "heuristic.ts" => ScopeClearsBar

\* ---------------------------------------------------------- the primary focus

\* a module of the engines directory that is not the shared utilities
isEngineModule(f) == includes(f.path, "/engines/") /\ ~includes(f.path, "/engines/shared.")

isSharedUtilities(f) == includes(f.path, "/engines/shared.")

countWhere(files, status, Test(_)) ==
    Cardinality({i \in 1..Len(files) : files[i].status = status /\ Test(files[i])})

\* added engine modules or added shared utilities, with two modified engine modules
refactorPattern(files) ==
    /\ countWhere(files, "A", isEngineModule) + countWhere(files, "A", isSharedUtilities) > 0
    /\ countWhere(files, "M", isEngineModule) >= 2

\* the weight of the focus, 0 when the focus carries none
focusWeight(focus) == IF "weight" \in DOMAIN focus THEN focus.weight ELSE 0

\* C24: with an added engine module or added shared utilities and two or more
\* modified engine modules the focus is engine-refactor, whatever the other
\* files are, and the weight of engine-refactor is above 8, the greatest
\* weight of another focus
EngineRefactorWhenever ==
    probe.op = "detectPrimaryFocus" =>
        /\ refactorPattern(probe.files) => probe.result.focus = "engine-refactor"
        /\ probe.result.focus = "engine-refactor" => focusWeight(probe.result) > 8
        /\ probe.result.focus # "engine-refactor" => focusWeight(probe.result) <= 8

\* heuristic.ts alone answers engine-refactor on the pattern, with the greatest weight
EngineRefactorWheneverH == snapshot = "heuristic.ts" => EngineRefactorWhenever

\* the share of the files whose path holds the scope is 60% or more
scopeCovers(scope, files) ==
    /\ scope # ""
    /\ 10 * Cardinality({i \in 1..Len(files) : includes(toLowerCase(files[i].path), scope)})
          >= 6 * Len(files)

\* the first pattern that applies below engine-refactor
weakerFocus(files, scope, categories) ==
    LET addedCount == Cardinality({i \in 1..Len(files) : files[i].status = "A"})
        modifiedCount == Cardinality({i \in 1..Len(files) : files[i].status = "M"})
    IN  IF countWhere(files, "A", isEngineModule) = 1 /\ modifiedCount = 0 /\ addedCount = 1
        THEN "new-engine"
        ELSE IF countWhere(files, "M", isEngineModule) >= 3 /\ addedCount = 0
        THEN "multi-engine"
        ELSE IF Len(files) = 1 THEN "single-file"
        ELSE IF scopeCovers(scope, files) THEN "scope-specific"
        ELSE IF Len(categories) >= 2 THEN "multi-category"
        ELSE "generic"

\* C25: without the engine-refactor pattern the focus is the first that applies
\* of new-engine, multi-engine, single-file, scope-specific and
\* multi-category, and generic when none does; two modified engine modules
\* are not multi-engine
WeakerFocusInOrder ==
    (probe.op = "detectPrimaryFocus" /\ Len(probe.files) > 0
        /\ ~refactorPattern(probe.files)) =>
        probe.result.focus = weakerFocus(probe.files, probe.scope, probe.categories)

\* two modified engine modules and nothing else
TwoModifiedEngines ==
    /\ probe.op = "detectPrimaryFocus"
    /\ Len(probe.files) = 2
    /\ countWhere(probe.files, "M", isEngineModule) = 2

\* the part of C25 on two modified engine modules
TwoAreNotMultiEngine == TwoModifiedEngines => probe.result.focus # "multi-engine"

\* the part of C25 on two modified engine modules, in heuristic.ts alone
TwoAreNotMultiEngineH == snapshot = "heuristic.ts" => TwoAreNotMultiEngine

\* ------------------------------------------------------ the dependency block

\* the text of a diff line without its marker and the blanks around it
lineContent(line) ==
    trim(IF Len(line) > 0 /\ charAt(line, 1) \in {"+", "-", " "} THEN slice(line, 1) ELSE line)

\* the names of the added key lines between a dependencies header and the
\* closing brace of its block; st is <<inside the block, names>>
RECURSIVE namesInBlock(_, _)
namesInBlock(lines, st) ==
    LET content == lineContent(lines[1])
        header == startsWith(content, "\"") /\ endsWith(content, "{")
        inside ==
            IF header THEN includes(toLowerCase(content), "dependencies\"")
            ELSE IF startsWith(content, "}") THEN FALSE
            ELSE st[1]
        key == SubSeq(content, 2, indexFrom(content, "\"", 2) - 1)
    IN  IF Len(lines) = 0 THEN st[2]
        ELSE namesInBlock(Tail(lines),
                 <<inside,
                   IF st[1] /\ inside /\ startsWith(lines[1], "+") /\ startsWith(content, "\"")
                   THEN addUnique(st[2], key) ELSE st[2]>>)

\* C26: the dependencies are the names of the added key lines that stand after
\* a dependencies header and before the closing brace of its block; a key added
\* after the brace or in another block is none, and a name removed and added
\* is there once
DependenciesInsideBlock ==
    probe.op = "extractKeyEntities" =>
        probe.result.dependencies = namesInBlock(probe.lines, <<FALSE, <<>>>>)

\* ------------------------------------------------------- nouns in one another

\* one noun holds the other, letter case aside
nounsOverlap(a, b) ==
    includes(toLowerCase(a), toLowerCase(b)) \/ includes(toLowerCase(b), toLowerCase(a))

\* C27: in the descriptions of a run no noun holds, or is held in, the noun of
\* an earlier description
NoNounInsideAnother ==
    calls > 0 =>
        \A i, j \in 1..Len(run.descriptions) :
            i < j => ~nounsOverlap(run.descriptions[i].noun, run.descriptions[j].noun)

\* the same in part_001 alone
NoNounInsideAnotherP == snapshot = "part_001" => NoNounInsideAnother

\* the same in heuristic.ts alone
NoNounInsideAnotherH == snapshot = "heuristic.ts" => NoNounInsideAnother

\* ------------------------------------------------------ the regen of a session

\* the values handed to generateCandidates by the step
handedNow == SubSeq(session'.handed, Len(session.handed) + 1, Len(session'.handed))

\* C28: the regen handed to the generation is 0 at first and one more at each
\* regenerate; the retry after a failure of ollama takes the same value again,
\* and quitting, the prefix, the choice of a candidate and an answer to the
\* confirmation, given or not, leave it as it is
RegenCountsRegenerations ==
    [][/\ \A k \in 1..Len(handedNow) : handedNow[k] = regen'
       /\ (session.phase = "start" /\ handedNow # <<>>) => regen' = 0
       /\ (session.phase = "select" /\ handedNow # <<>>) => regen' = regen + 1
       /\ handedNow = <<>> => regen' = regen]_vars

\* two regenerations after a failure of ollama, a prefix and a confirmation
\* that was not given in between
RegenCountsRegenerationsWitness ==
    /\ session.phase = "select"
    /\ session.handed = <<0, 0, 1, 2>>
    /\ regen = 2
    /\ session.prefix # ""
    /\ session.answer \in {"no", "cancel"}

\* ---------------------------------------------------------------- the period

\* C29: for every change set, style and variant v, generateHeuristic of variant
\* v + 12 returns the candidates of variant v
PeriodTwelve == probe.op = "generateHeuristic" => probe.later = probe.result

\* three candidates at a variant past the first turn of the rotation, other
\* than those of the next variant and met again twelve variants later
PeriodTwelveWitness ==
    /\ probe.op = "generateHeuristic"
    /\ probe.variant = 7
    /\ Len(probe.result) = 3
    /\ probe.next # probe.result
    /\ probe.later = probe.result

\* -------------------------------------------------------- the chosen candidate

\* C30: a message taken from the selection is the prefix followed by one of
\* the candidates on offer, also when fewer than three are on offer
ChosenIsOffered ==
    (\/ session.phase = "confirm"
     \/ session.phase = "exited" /\ session.cli = "cli.ts" /\ session.dryRun
           /\ session.selected) =>
        \E i \in 1..Len(session.offered) :
            session.message = session.prefix \o session.offered[i]

\* the same in part_005 alone
ChosenIsOfferedP == session.cli = "part_005" => ChosenIsOffered

====
